---- MODULE Spec2Model ----
(***************************************************************************)
(* The expiring, prefix-indexed clipboard store of actix-drop:             *)
(*   - the hash trie            (src/src/store/hash_trie/trie.rs)          *)
(*   - the entry table          (src/src/store/trie_tracker.rs)            *)
(*   - the tracker and its expiry tasks (src/src/store/tracker.rs)         *)
(*   - the persistence layer    (src/src/store/persist.rs,                 *)
(*                               src/libsoyjot/src/store/persist.rs)       *)
(*                                                                         *)
(* Specification Spec runs every handler as one step: a call of            *)
(* Tracker::store_new_clipboard, a call of Tracker::remove, and the body   *)
(* of expire_timer after its select! has picked a branch.  None of them    *)
(* awaits, and a Tracker and the tasks it spawns live on one worker's      *)
(* cooperative runtime (src/src/bin/soyjot-actix/main.rs builds the        *)
(* Tracker inside the per-worker factory), so each runs to completion.     *)
(* The expiry tasks are scheduled freely between the calls; select! is     *)
(* unbiased, so a task whose sleep and abort are both ready may take       *)
(* either branch.  SpecLive adds the fairness of the expiry tasks, SpecExt  *)
(* a reader and an outside process that deletes files, and SpecConc runs   *)
(* the same code with the tracker shared by several threads, every call    *)
(* and task cut at its lock() calls.                                       *)
(*                                                                         *)
(* The parts around the tracker have specifications of their own:          *)
(*   - SpecFs      the persistence layer on a file system                  *)
(*                 (src/libsoyjot/src/store/persist.rs)                    *)
(*   - SpecErr     the error gate (src/src/store/error.rs)                 *)
(*   - SpecHttp    post_drop and get_drop (src/src/http_server.rs)         *)
(*   - SpecTrie    insert and search (src/src/store/hash_trie/trie.rs)     *)
(*   - SpecData    deserialization of Data                                 *)
(*                 (src/libsoyjot/src/store/data.rs)                       *)
(*   - SpecWorkers the HTTP workers, each with the Tracker its factory     *)
(*                 built (src/src/bin/soyjot-actix/main.rs)                *)
(*   - SpecTrieRm  insert and remove (src/src/store/hash_trie/trie.rs)     *)
(*   - SpecHashTrie the HashTrie wrapper (src/src/hash_trie/mod.rs)        *)
(*   - SpecMixed   the tracker with hashes of several lengths              *)
(*   - SpecShort   the tracker with a hash shorter than MIN_HASH_LEN       *)
(*   - SpecStore   the HashMap-backed Store (src/src/store/mod.rs)         *)
(***************************************************************************)
EXTENDS Integers, Sequences, FiniteSets, TLC

\* TrieTracker::MIN_HASH_LEN
MIN_HASH_LEN == 4

\* Number of calls of the tracker's API (store_new_clipboard, remove) in a run.
MaxCalls == 2

\* Hashes of one uniform length, as the byte paths the trie is keyed by.
Hashes ==
    { <<1, 2, 3, 4, 0, 0>>, <<1, 2, 3, 4, 5, 0>>, <<1, 2, 3, 4, 5, 6>>, <<7, 7, 7, 7, 0, 0>> }

\* Clipboard payloads.
Blobs == {"foo", "eiei"}

MEM == "Mem"
PERSIST == "Persist"

\* Option<T>: None is the empty sequence, Some(v) the one-element sequence.
None == <<>>
Some(v) == <<v>>

\* Result<usize, StoreError> of insert_clipboard / store_new_clipboard.
Ok(n) == [ok |-> TRUE, min_len |-> n, err |-> ""]
Err(e) == [ok |-> FALSE, min_len |-> 0, err |-> e]

IsPrefix(p, q) == Len(p) <= Len(q) /\ SubSeq(q, 1, Len(p)) = p

---------------------------------------------------------------------------
(* Hash trie.  A trie is a function from the paths of its nodes (the root  *)
(* is the empty path) to the node's Option<value>; a node is named by its  *)
(* path.                                                                   *)

\* Trie::new
TrieNew == [p \in {<<>>} |-> None]

\* TrieNode::search_direct_child: the child of node under key, if any.
search_direct_child(t, node, key) ==
    IF Append(node, key) \in DOMAIN t THEN Some(Append(node, key)) ELSE None

\* TrieNode::search_child: walk path from node, one child at a time.
RECURSIVE search_child_from(_, _, _, _)
search_child_from(t, curr, path, i) ==
    IF i > Len(path) THEN Some(curr)
    ELSE LET next == search_direct_child(t, curr, path[i])
         IN  IF next = None THEN None
             ELSE search_child_from(t, next[1], path, i + 1)

search_child(t, node, path) == search_child_from(t, node, path, 1)

\* An insert that puts a new node at the end of path, in place of any node
\* that was there.
Trie_insert_fresh(t, path, value) ==
    LET along == {SubSeq(path, 1, i) : i \in 0..Len(path)}
        kept == {p \in DOMAIN t : p = path \/ ~IsPrefix(path, p)}
    IN  [p \in kept \cup along |->
            IF p = path THEN Some(value)
            ELSE IF p \in DOMAIN t THEN t[p] ELSE None]

\* Trie::insert: create the missing nodes along path, set the last node's value.
Trie_insert(t, path, value) ==
    LET along == {SubSeq(path, 1, i) : i \in 0..Len(path)}
    IN  [p \in DOMAIN t \cup along |->
            IF p = path THEN Some(value)
            ELSE IF p \in DOMAIN t THEN t[p] ELSE None]

\* The subtree of t rooted at path, as a trie of its own.
subtree(t, path) ==
    [q \in {SubSeq(p, Len(path) + 1, Len(p)) : p \in {r \in DOMAIN t : IsPrefix(path, r)}}
        |-> t[path \o q]]

\* A remove that takes the node at path and leaves what hangs below it.
TrieNode_remove_shallow(t, path) ==
    IF path = <<>> \/ path \notin DOMAIN t
    THEN [trie |-> t, node |-> None, panic |-> path = <<>>]
    ELSE [trie |-> [p \in DOMAIN t \ {path} |-> t[p]],
          node |-> Some([value |-> t[path], children |-> subtree(t, path)]),
          panic |-> FALSE]

\* A remove that, finding no node at path, takes the node above it.
TrieNode_remove_above(t, path) ==
    IF path = <<>> THEN [trie |-> t, node |-> None, panic |-> TRUE]
    ELSE LET target == IF path \in DOMAIN t \/ Len(path) = 1 THEN path
                       ELSE SubSeq(path, 1, Len(path) - 1)
         IN  IF target \notin DOMAIN t
             THEN [trie |-> t, node |-> None, panic |-> FALSE]
             ELSE [trie |-> [p \in {q \in DOMAIN t : ~IsPrefix(target, q)} |-> t[p]],
                   node |-> Some([value |-> t[target],
                                  children |-> subtree(t, target)]),
                   panic |-> FALSE]

\* TrieNode::remove: detach the subtree at path from its parent and return
\* it; the nodes on the way to path stay.  last_idx is a usize: for the empty
\* path the subtraction underflows, which panics where overflow is checked
\* and elsewhere wraps to usize::MAX, and then the slice path[..last_idx]
\* panics, its end being past the length of path.
TrieNode_remove(t, path) ==
    LET last_idx == Len(path) - 1
    IN  IF last_idx < 0 THEN [trie |-> t, node |-> None, panic |-> TRUE]
        ELSE LET parent == search_child(t, <<>>, SubSeq(path, 1, last_idx))
             IN  IF parent = None
                    \/ search_direct_child(t, parent[1], path[last_idx + 1]) = None
                 THEN [trie |-> t, node |-> None, panic |-> FALSE]
                 ELSE [trie |-> [p \in {q \in DOMAIN t : ~IsPrefix(path, q)} |-> t[p]],
                       node |-> Some([value |-> t[path],
                                      children |-> subtree(t, path)]),
                       panic |-> FALSE]

\* all_children that looks at the node alone and forgets its descendants.
all_children_node_only(t, node) ==
    {p \in DOMAIN t : p = node /\ t[p] # None}

\* TrieNode::all_children: the valued nodes of the subtree at node.
all_children(t, node) ==
    {p \in DOMAIN t : IsPrefix(node, p) /\ t[p] # None}

---------------------------------------------------------------------------
(* Persistence: the storage directory as a function from file names to     *)
(* contents.                                                               *)

\* A write whose I/O error is swallowed.
write_clipboard_file_unchecked(f, name, content, io_ok) ==
    [files |-> f, ok |-> TRUE]

\* write_clipboard_file: create or truncate; io_ok = FALSE is an I/O failure.
write_clipboard_file(f, name, content, io_ok) ==
    IF io_ok
    THEN [files |-> [n \in DOMAIN f \cup {name} |-> IF n = name THEN content ELSE f[n]],
          ok |-> TRUE]
    ELSE [files |-> f, ok |-> FALSE]

\* A read that takes a missing file for an empty one.
read_clipboard_file_lenient(f, id) ==
    IF id \in DOMAIN f THEN Some(f[id]) ELSE Some("")

\* read_clipboard_file: fails when the file does not exist.
read_clipboard_file(f, id) ==
    IF id \in DOMAIN f THEN Some(f[id]) ELSE None

\* rm_clipboard_file: fails when the file does not exist.
rm_clipboard_file(f, id) ==
    IF id \in DOMAIN f
    THEN [files |-> [n \in DOMAIN f \ {id} |-> f[n]], ok |-> TRUE]
    ELSE [files |-> f, ok |-> FALSE]

---------------------------------------------------------------------------
(* One-shot abort channels, one per stored entry, named by the number of   *)
(* the store that made it.  chan[tx] is "open", "sent" or "closed" (the    *)
(* sender was dropped without sending).  The receiver lives in the expiry  *)
(* task until its select! has picked a branch.                             *)

rx_alive(tk, tx) == tx \notin DOMAIN tk \/ tk[tx].pc = "select"

\* oneshot::Sender::send: fails when the receiver is gone.
send(ch, tk, tx) ==
    IF rx_alive(tk, tx)
    THEN [chan |-> [ch EXCEPT ![tx] = "sent"], ok |-> TRUE]
    ELSE [chan |-> ch, ok |-> FALSE]

\* Dropping a sender that was never used wakes the receiver with an error.
drop_sender(ch, tx) ==
    IF ch[tx] = "open" THEN [ch EXCEPT ![tx] = "closed"] ELSE ch

\* Dropping the node that Trie::remove returned drops the values of the nodes
\* below it, and with them their abort senders.
drop_below(ch, t, hash) ==
    [tx \in DOMAIN ch |->
        IF /\ ch[tx] = "open"
           /\ Len(hash) > 0
           /\ \E p \in DOMAIN t :
                 /\ IsPrefix(hash, p) /\ p # hash
                 /\ t[p] # None /\ t[p][1].tx = tx
        THEN "closed" ELSE ch[tx]]

---------------------------------------------------------------------------
(* Entry table (TrieTracker).  A trie value is the tuple                   *)
(* (full_hash, Option<Clipboard>, abort sender): clip is Some(clipboard)   *)
(* for Clipboard::Mem and None for Clipboard::Persist.                     *)

Clipboard(kind, data) == [kind |-> kind, data |-> data]

\* A remove by the short handle: it detaches the node of the first
\* MIN_HASH_LEN characters, and returns the value at hash.
TrieTracker_remove_handle(t, hash) ==
    [trie |-> TrieNode_remove(t, SubSeq(hash, 1, MIN_HASH_LEN)).trie,
     ret |-> IF hash \in DOMAIN t THEN t[hash] ELSE None]

\* A remove that looks the value up and leaves it in the trie.
TrieTracker_remove_peek(t, hash) ==
    [trie |-> t, ret |-> IF hash \in DOMAIN t THEN t[hash] ELSE None]

\* TrieTracker::remove: trie.remove(hash).and_then(|node| node.value)
TrieTracker_remove(t, hash) ==
    LET rm == TrieNode_remove(t, hash)
    IN  [trie |-> rm.trie,
         ret |-> IF rm.node = None THEN None ELSE rm.node[1].value]

\* An is_empty that asks whether the root has any child node.
TrieTracker_is_empty_nodes(t) == DOMAIN t = {<<>>}

\* TrieTracker::is_empty
TrieTracker_is_empty(t) == Cardinality(all_children(t, <<>>)) = 0

\* TrieTracker::get_clipboard_frag: the clipboard, if it is the only valued
\* node below frag; a persisted clipboard is read back from its file.
get_clipboard_frag(t, f, frag) ==
    LET node == search_child(t, <<>>, frag)
    IN  IF node = None THEN None
        ELSE LET children == all_children(t, node[1])
             IN  IF Cardinality(children) # 1 THEN None
                 ELSE LET value == t[CHOOSE c \in children : TRUE][1]
                      IN  IF value.clip # None THEN value.clip
                          ELSE LET persisted == read_clipboard_file(f, value.hash)
                               IN  IF persisted = None THEN None
                                   ELSE Some(Clipboard(PERSIST, persisted[1]))

\* The loop of insert_clipboard that finds min_len: i is the 0-based index
\* into hash, from MIN_HASH_LEN up to hash.len() (exclusive).  When the loop
\* runs off the end of the hash, min_len keeps MIN_HASH_LEN.
RECURSIVE min_len_loop(_, _, _, _)

\* The loop reporting the index of the missing child instead of the length.
min_len_loop_index(t, curr, hash, i) ==
    IF i >= Len(hash) THEN MIN_HASH_LEN
    ELSE LET next == search_direct_child(t, curr, hash[i + 1])
         IN  IF next = None THEN i
             ELSE min_len_loop(t, next[1], hash, i + 1)

\* The loop counting one character too many.
min_len_loop_overshoot(t, curr, hash, i) ==
    IF i >= Len(hash) THEN MIN_HASH_LEN
    ELSE LET next == search_direct_child(t, curr, hash[i + 1])
         IN  IF next = None THEN i + 2
             ELSE min_len_loop(t, next[1], hash, i + 1)

min_len_loop(t, curr, hash, i) ==
    IF i >= Len(hash) THEN MIN_HASH_LEN
    ELSE LET next == search_direct_child(t, curr, hash[i + 1])
         IN  IF next = None THEN i + 1
             ELSE min_len_loop(t, next[1], hash, i + 1)

\* find_min_len that walks on from the root instead of from the node of the
\* first MIN_HASH_LEN characters.
find_min_len_from_root(t, hash) ==
    LET start == search_child(t, <<>>, SubSeq(hash, 1, MIN_HASH_LEN))
    IN  IF start = None THEN MIN_HASH_LEN
        ELSE min_len_loop(t, <<>>, hash, MIN_HASH_LEN)

\* The min_len of insert_clipboard (hash.len() >= MIN_HASH_LEN).
find_min_len(t, hash) ==
    LET start == search_child(t, <<>>, SubSeq(hash, 1, MIN_HASH_LEN))
    IN  IF start = None THEN MIN_HASH_LEN
        ELSE min_len_loop(t, start[1], hash, MIN_HASH_LEN)

\* to_save that keeps no clipboard in the trie, whatever its kind.
to_save_nothing(clipboard) == None

\* What insert_clipboard keeps in the trie for a clipboard.
to_save(clipboard) ==
    IF clipboard.kind = MEM THEN Some(clipboard) ELSE None

\* TrieTracker::insert_clipboard, under the trie lock: abort and unpersist a
\* previous entry at hash, find min_len, persist the clipboard if asked,
\* insert the value with the sender of a new channel tx.  sent tells whether
\* it sent on a previous entry's abort sender.
insert_clipboard(t, f, ch, tk, hash, clipboard, tx, io_ok) ==
    LET rm == TrieTracker_remove(t, hash)
        prev == rm.ret
        unpersist == IF prev # None /\ prev[1].clip = None
                     THEN rm_clipboard_file(f, hash)
                     ELSE [files |-> f, ok |-> TRUE]
    IN  IF ~unpersist.ok
        THEN [trie |-> rm.trie, files |-> f,
              chan |-> drop_sender(ch, prev[1].tx), ret |-> Err("IoError"),
              sent |-> FALSE]
        ELSE
        LET aborted == IF prev # None THEN send(ch, tk, prev[1].tx)
                       ELSE [chan |-> ch, ok |-> TRUE]
        IN  IF ~aborted.ok
            THEN [trie |-> rm.trie, files |-> unpersist.files,
                  chan |-> aborted.chan, ret |-> Err("Bug"), sent |-> TRUE]
            ELSE
            LET min_len == find_min_len(rm.trie, hash)
                written == IF clipboard.kind = PERSIST
                           THEN write_clipboard_file(unpersist.files, hash,
                                                     clipboard.data, io_ok)
                           ELSE [files |-> unpersist.files, ok |-> TRUE]
            IN  IF ~written.ok
                THEN [trie |-> rm.trie, files |-> written.files,
                      chan |-> aborted.chan, ret |-> Err("IoError"),
                      sent |-> prev # None]
                ELSE [trie |-> Trie_insert(rm.trie, hash,
                                  [hash |-> hash, clip |-> to_save(clipboard), tx |-> tx]),
                      files |-> written.files,
                      chan |-> [c \in DOMAIN aborted.chan \cup {tx} |->
                                   IF c = tx THEN "open" ELSE aborted.chan[c]],
                      ret |-> Ok(min_len), sent |-> prev # None]

\* A remove that takes the value out and hands nothing back.
Tracker_remove_discard(t, hash) ==
    [trie |-> TrieTracker_remove(t, hash).trie, ret |-> None]

\* Tracker::remove: the (clipboard, sender) of the removed value.
Tracker_remove(t, hash) ==
    LET rm == TrieTracker_remove(t, hash)
    IN  [trie |-> rm.trie,
         ret |-> IF rm.ret = None THEN None
                 ELSE Some([clip |-> rm.ret[1].clip, tx |-> rm.ret[1].tx])]

---------------------------------------------------------------------------
(* State.                                                                  *)

VARIABLES
    trie,     \* Tracker.haystack: the trie under its mutex
    files,    \* the storage directory
    tasks,    \* the expiry tasks spawned so far: [hash, pc]
    chan,     \* the one-shot abort channels
    calls,    \* the number of API calls made so far
    last,     \* history: the operation that made this state, and its result
    hist,     \* history, per hash: the latest store of it
    clean,    \* history: so far only successful stores of distinct hashes
    threads,  \* the calls in flight on several threads: their position and locals
    lock,     \* the holder of the trie's mutex, if any
    resp,     \* the response of the HTTP handler that ran last
    req,      \* the argument of the function under study, and its results
    disk,     \* the file system around the storage directory
    conf_dir, \* AppConfig.dir
    worker,   \* the Tracker of each HTTP worker
    inserted, \* history: the paths given to Trie::insert so far
    poisoned, \* whether a panic under the trie's mutex has poisoned it
    haystack, \* Store.haystack: the table of the HashMap-backed Store
    key_lengths \* HashTrie.key_lengths

\* The state of one tracker and of the calls made on it.
tracker == <<trie, files, tasks, chan, calls, last, hist, clean, threads, lock>>

\* The state of the studies of the parts around the tracker.
\* The state of the other tables of the repository, and of the mutex.
more == <<poisoned, haystack, key_lengths>>

aux == <<req, disk, conf_dir, worker, inserted, more>>

vars == <<tracker, resp, aux>>

\* What the handlers that run to completion leave alone.
conc == <<threads, lock>>

\* The number of the next channel / expiry task.
next_tx == Len(tasks) + 1

NoOp ==
    [op |-> "init", hash |-> <<>>, kind |-> "", data |-> "", ret |-> Err(""),
     replaced |-> None, task |-> 0, stale |-> FALSE, rm_tx |-> 0, rm_file |-> FALSE,
     io_ok |-> TRUE, got |-> None, dangling |-> FALSE]

NoHist ==
    [blob |-> None, task |-> 0, prev |-> 0, intact |-> FALSE, rearmed |-> FALSE]

TrackerInit ==
    /\ trie = TrieNew
    /\ files = [n \in {} |-> ""]
    /\ tasks = <<>>
    /\ chan = [c \in {} |-> ""]
    /\ calls = 0
    /\ last = NoOp
    /\ hist = [h \in Hashes |-> NoHist]
    /\ clean = TRUE
    /\ threads = <<>>
    /\ lock = None

\* The other tables, unused.
MoreInit ==
    /\ poisoned = FALSE
    /\ haystack = None
    /\ key_lengths = None

\* The parts around the tracker, at rest.
AuxInit ==
    /\ req = None
    /\ disk = None
    /\ conf_dir = None
    /\ worker = None
    /\ inserted = {}
    /\ MoreInit

Init ==
    /\ TrackerInit
    /\ resp = None
    /\ AuxInit

\* Tracker::get_clipboard on the current state.
get_clipboard(hash) == get_clipboard_frag(trie, files, hash)

\* Tracker::is_empty on the current state.
is_empty == TrieTracker_is_empty(trie)

\* The hashes that have a value in the table.
Live == {h \in Hashes : h \in DOMAIN trie /\ trie[h] # None}

\* Tracker::store_new_clipboard(hash, clipboard, dur): drop the old timer,
\* insert the clipboard, spawn the expiry task of the new entry.
StoreNewClipboard(hash, kind, data, io_ok) ==
    /\ calls < MaxCalls
    /\ calls' = calls + 1
    /\ LET removed == Tracker_remove(trie, hash)
           stopped == IF removed.ret # None
                      THEN send(chan, tasks, removed.ret[1].tx)
                      ELSE [chan |-> chan, ok |-> TRUE]
           ins == insert_clipboard(removed.trie, files,
                                   drop_below(stopped.chan, trie, hash), tasks,
                                   hash, Clipboard(kind, data), next_tx, io_ok)
           old == IF removed.ret = None THEN None
                  ELSE Some([kind |-> IF removed.ret[1].clip = None THEN PERSIST ELSE MEM,
                             data |-> hist[hash].blob[1],
                             tx |-> removed.ret[1].tx])
       IN  /\ trie' = ins.trie
           /\ files' = ins.files
           /\ chan' = ins.chan
           /\ tasks' = IF ins.ret.ok
                       THEN Append(tasks, [hash |-> hash, pc |-> "select"])
                       ELSE tasks
           /\ last' = [NoOp EXCEPT !.op = "store", !.hash = hash, !.kind = kind,
                                   !.data = data, !.ret = ins.ret, !.replaced = old,
                                   !.task = IF ins.ret.ok THEN next_tx ELSE 0,
                                   !.io_ok = io_ok]
           /\ hist' = [hist EXCEPT ![hash] =
                         IF ins.ret.ok
                         THEN [blob |-> Some(data), task |-> next_tx,
                               prev |-> IF old = None THEN 0 ELSE old[1].tx,
                               intact |-> TRUE,
                               rearmed |-> old # None /\ tasks[old[1].tx].pc = "select"]
                         ELSE [@ EXCEPT !.task = 0, !.prev = 0, !.intact = FALSE,
                                        !.rearmed = FALSE]]
           /\ clean' = (clean /\ hist[hash].blob = None)
    /\ UNCHANGED conc
    /\ UNCHANGED aux

\* Tracker::remove(hash), called from outside; the caller drops the result,
\* and with it the abort sender.
Remove(hash) ==
    /\ calls < MaxCalls
    /\ calls' = calls + 1
    /\ LET removed == Tracker_remove(trie, hash)
       IN  /\ trie' = removed.trie
           /\ chan' = drop_below(IF removed.ret = None THEN chan
                                 ELSE drop_sender(chan, removed.ret[1].tx),
                                 trie, hash)
           /\ last' = [NoOp EXCEPT !.op = "remove", !.hash = hash,
                                   !.rm_tx = IF removed.ret = None THEN 0
                                             ELSE removed.ret[1].tx]
    /\ hist' = [hist EXCEPT ![hash] = [@ EXCEPT !.intact = FALSE, !.rearmed = FALSE]]
    /\ clean' = FALSE
    /\ UNCHANGED <<files, tasks>>
    /\ UNCHANGED conc
    /\ UNCHANGED <<resp, aux>>

\* expire_timer, the sleep branch of its select!: remove the entry of the
\* task's hash, and the file of a persisted clipboard.
ExpireTimer(id) ==
    /\ tasks[id].pc = "select"
    /\ LET hash == tasks[id].hash
           removed == TrieTracker_remove(trie, hash)
           unpersist == IF removed.ret # None /\ removed.ret[1].clip = None
                        THEN rm_clipboard_file(files, hash)
                        ELSE [files |-> files, ok |-> FALSE]
       IN  /\ trie' = removed.trie
           /\ files' = unpersist.files
           /\ chan' = drop_below(IF removed.ret = None THEN chan
                                 ELSE drop_sender(chan, removed.ret[1].tx),
                                 trie, hash)
           /\ tasks' = [tasks EXCEPT ![id].pc = "expired"]
           /\ last' = [NoOp EXCEPT !.op = "expire", !.hash = hash, !.task = id,
                                   !.stale = (hist[hash].task # id),
                                   !.rm_tx = IF removed.ret = None THEN 0
                                             ELSE removed.ret[1].tx,
                                   !.rm_file = unpersist.ok]
           /\ hist' = [hist EXCEPT ![hash].intact = FALSE]
    /\ clean' = FALSE
    /\ UNCHANGED calls
    /\ UNCHANGED conc
    /\ UNCHANGED <<resp, aux>>

\* expire_timer, the abort branch of its select!: the signal was sent, or the
\* sender was dropped; the task returns.
AbortTimer(id) ==
    /\ tasks[id].pc = "select"
    /\ chan[id] # "open"
    /\ tasks' = [tasks EXCEPT ![id].pc = "aborted"]
    /\ last' = [NoOp EXCEPT !.op = "abort", !.hash = tasks[id].hash, !.task = id]
    /\ UNCHANGED <<trie, files, chan, calls, hist, clean>>
    /\ UNCHANGED conc
    /\ UNCHANGED <<resp, aux>>

Next ==
    \/ \E hash \in Hashes, kind \in {MEM, PERSIST}, data \in Blobs :
         \E io_ok \in (IF kind = PERSIST THEN BOOLEAN ELSE {TRUE}) :
            StoreNewClipboard(hash, kind, data, io_ok) /\ UNCHANGED resp
    \/ \E hash \in Hashes : Remove(hash)
    \/ \E id \in DOMAIN tasks : ExpireTimer(id)
    \/ \E id \in DOMAIN tasks : AbortTimer(id)

Spec == Init /\ [][Next]_vars

\* The runtime polls every spawned task, and a sleep of finite duration ends:
\* an expiry task does not wait in its select! forever.
TimerFairness ==
    \A id \in 1..MaxCalls :
        WF_vars(id \in DOMAIN tasks /\ (ExpireTimer(id) \/ AbortTimer(id)))

SpecLive == Spec /\ TimerFairness

---------------------------------------------------------------------------
(* The tracker with a reader, and with someone outside the program who     *)
(* deletes files of the storage directory.                                 *)

\* The table holds a Persistent entry for hash and its file is gone.
Dangling(hash) ==
    /\ hash \in Live
    /\ trie[hash][1].clip = None
    /\ hash \notin DOMAIN files

\* A get that moves the value out of the table.
GetCall_take(hash) ==
    /\ last' = [NoOp EXCEPT !.op = "get", !.hash = hash,
                            !.got = get_clipboard(hash),
                            !.dangling = Dangling(hash)]
    /\ trie' = TrieTracker_remove(trie, hash).trie
    /\ UNCHANGED <<files, tasks, chan, calls, hist, clean>>
    /\ UNCHANGED conc
    /\ UNCHANGED <<resp, aux>>

\* Tracker::get_clipboard(hash), called from outside.
GetCall(hash) ==
    /\ last' = [NoOp EXCEPT !.op = "get", !.hash = hash,
                            !.got = get_clipboard(hash),
                            !.dangling = Dangling(hash)]
    /\ UNCHANGED <<trie, files, tasks, chan, calls, hist, clean>>
    /\ UNCHANGED conc
    /\ UNCHANGED <<resp, aux>>

\* Another process unlinks a file of the storage directory.
ExternalDelete(name) ==
    /\ name \in DOMAIN files
    /\ files' = rm_clipboard_file(files, name).files
    /\ last' = [NoOp EXCEPT !.op = "unlink", !.hash = name]
    /\ UNCHANGED <<trie, tasks, chan, calls, hist, clean>>
    /\ UNCHANGED conc
    /\ UNCHANGED <<resp, aux>>

NextExt ==
    \/ Next
    \/ \E hash \in Hashes : GetCall(hash)
    \/ \E name \in Hashes : ExternalDelete(name)

SpecExt == Init /\ [][NextExt]_vars

---------------------------------------------------------------------------
(* The same tracker shared by several threads (Tracker is Sync and is      *)
(* handed around as Arc<Tracker>; on a multi-threaded runtime the callers  *)
(* and the expiry tasks run in parallel).  A call or a task is cut where   *)
(* it takes or releases the trie's mutex: it waits for the mutex, and then *)
(* runs what it does under the mutex, and what follows up to its next      *)
(* lock(), as one step.  Nothing done under the mutex blocks: the file     *)
(* operations are local and a one-shot send never waits.                   *)

\* The hashes the concurrent callers use.
ConcHashes == { <<1, 2, 3, 4, 0, 0>>, <<1, 2, 3, 4, 5, 0>> }

\* The payload of the next store: the first caller brings one blob, the later
\* callers another.
NextBlob == IF calls = 0 THEN "foo" ELSE "eiei"

\* The holders of the mutex.
Th(i) == <<"thread", i>>
Tk(id) == <<"task", id>>

\* MutexGuard dropped: the mutex is free again.
unlock_leak(holder) == holder

unlock(holder) == None

\* A call as it starts: pc is where it stands, stopper the sender that
\* store_new_clipboard got from Tracker::remove, sent the outcome of its
\* stopper.send(()), sent_locked whether insert_clipboard sent under the
\* mutex, racing whether a get ran between the two halves of a replacement,
\* ret and got the results.
NewCall(op, hash, kind, data, io_ok) ==
    [op |-> op, hash |-> hash, kind |-> kind, data |-> data, io_ok |-> io_ok,
     pc |-> IF op = "get" THEN "get" ELSE "remove",
     stopper |-> 0, sent |-> "none", sent_locked |-> FALSE, racing |-> FALSE,
     ret |-> Err(""), got |-> None]

\* A thread enters store_new_clipboard, remove or get_clipboard.
Call(op, hash, kind, data, io_ok) ==
    /\ IF op = "get"
       THEN /\ \A i \in DOMAIN threads : threads[i].op # "get"
            /\ UNCHANGED calls
       ELSE /\ calls < MaxCalls
            /\ calls' = calls + 1
    /\ threads' = Append(threads, NewCall(op, hash, kind, data, io_ok))
    /\ UNCHANGED <<trie, files, tasks, chan, last, hist, clean, lock>>
    /\ UNCHANGED <<resp, aux>>

\* self.trie.lock() of a call: it waits until the mutex is free.
ThreadLock(i) ==
    /\ threads[i].pc \in {"remove", "insert", "get"}
    /\ lock = None
    /\ lock' = Th(i)
    /\ threads' = [threads EXCEPT ![i].pc =
                      CASE threads[i].pc = "remove" -> "removing"
                        [] threads[i].pc = "insert" -> "inserting"
                        [] threads[i].pc = "get" -> "getting"]
    /\ UNCHANGED <<trie, files, tasks, chan, calls, last, hist, clean>>
    /\ UNCHANGED <<resp, aux>>

\* store_new_clipboard: tracker.remove(&hash), under the mutex.
StoreRemove(i) ==
    /\ threads[i].op = "store" /\ threads[i].pc = "removing" /\ lock = Th(i)
    /\ LET removed == Tracker_remove(trie, threads[i].hash)
       IN  /\ trie' = removed.trie
           /\ threads' = [threads EXCEPT
                  ![i].pc = IF removed.ret = None THEN "insert" ELSE "send",
                  ![i].stopper = IF removed.ret = None THEN 0 ELSE removed.ret[1].tx]
    /\ lock' = unlock(lock)
    /\ UNCHANGED <<files, tasks, chan, calls, last, hist, clean>>
    /\ UNCHANGED <<resp, aux>>

\* store_new_clipboard: stopper.send(()), the mutex released; a failure is
\* logged.
StoreSend(i) ==
    /\ threads[i].op = "store" /\ threads[i].pc = "send"
    /\ LET stopped == send(chan, tasks, threads[i].stopper)
       IN  /\ chan' = stopped.chan
           /\ threads' = [threads EXCEPT
                  ![i].pc = "insert",
                  ![i].sent = IF stopped.ok THEN "ok" ELSE "failed"]
    /\ UNCHANGED <<trie, files, tasks, calls, last, hist, clean, lock>>
    /\ UNCHANGED <<resp, aux>>

\* store_new_clipboard: insert_clipboard, all of it under the mutex, and the
\* spawn of the expiry task that follows.
StoreInsert(i) ==
    /\ threads[i].op = "store" /\ threads[i].pc = "inserting" /\ lock = Th(i)
    /\ LET th == threads[i]
           ins == insert_clipboard(trie, files, chan, tasks, th.hash,
                                   Clipboard(th.kind, th.data), next_tx, th.io_ok)
       IN  /\ trie' = ins.trie
           /\ files' = ins.files
           /\ chan' = ins.chan
           /\ tasks' = IF ins.ret.ok
                       THEN Append(tasks, [hash |-> th.hash, pc |-> "select"])
                       ELSE tasks
           /\ threads' = [threads EXCEPT ![i].pc = "done", ![i].ret = ins.ret,
                                         ![i].sent_locked = ins.sent]
    /\ lock' = unlock(lock)
    /\ UNCHANGED <<calls, last, hist, clean>>
    /\ UNCHANGED <<resp, aux>>

\* Tracker::remove called from outside: under the mutex; the caller drops
\* the sender it gets.
RemoveEntry(i) ==
    /\ threads[i].op = "remove" /\ threads[i].pc = "removing" /\ lock = Th(i)
    /\ LET removed == Tracker_remove(trie, threads[i].hash)
       IN  /\ trie' = removed.trie
           /\ chan' = IF removed.ret = None THEN chan
                      ELSE drop_sender(chan, removed.ret[1].tx)
           /\ threads' = [threads EXCEPT
                  ![i].pc = "done",
                  ![i].stopper = IF removed.ret = None THEN 0 ELSE removed.ret[1].tx]
    /\ lock' = unlock(lock)
    /\ UNCHANGED <<files, tasks, calls, last, hist, clean>>
    /\ UNCHANGED <<resp, aux>>

\* A store of hash has taken the live entry out of the table and has not
\* yet put its own in, while the old entry's timer has not fired.
Replacing(hash) ==
    \E j \in DOMAIN threads :
        /\ threads[j].op = "store" /\ threads[j].hash = hash
        /\ threads[j].pc \in {"send", "insert"}
        /\ threads[j].stopper # 0
        /\ tasks[threads[j].stopper].pc \in {"select", "aborted"}

\* Tracker::get_clipboard: under the mutex, the file read included.
GetClipboard(i) ==
    /\ threads[i].op = "get" /\ threads[i].pc = "getting" /\ lock = Th(i)
    /\ threads' = [threads EXCEPT
           ![i].pc = "done",
           ![i].got = get_clipboard_frag(trie, files, threads[i].hash),
           ![i].racing = Replacing(threads[i].hash)]
    /\ lock' = unlock(lock)
    /\ UNCHANGED <<trie, files, tasks, chan, calls, last, hist, clean>>
    /\ UNCHANGED <<resp, aux>>

\* expire_timer: the sleep branch of select! is picked; the receiver is
\* dropped with the select!, and the task goes for the mutex.
TimerFires(id) ==
    /\ tasks[id].pc = "select"
    /\ tasks' = [tasks EXCEPT ![id].pc = "sleep"]
    /\ UNCHANGED <<trie, files, chan, calls, last, hist, clean, threads, lock>>
    /\ UNCHANGED <<resp, aux>>

\* expire_timer: the lock() of tracker.haystack.remove(&hash).
TaskLock(id) ==
    /\ tasks[id].pc = "sleep"
    /\ lock = None
    /\ lock' = Tk(id)
    /\ tasks' = [tasks EXCEPT ![id].pc = "expiring"]
    /\ UNCHANGED <<trie, files, chan, calls, last, hist, clean, threads>>
    /\ UNCHANGED <<resp, aux>>

\* expire_timer: tracker.haystack.remove(&hash) under the mutex.  The sender
\* of the removed value is counted as dropped here; the code drops it at the
\* end of the match, which only delays the wake-up of that sender's task.
ExpireRemove(id) ==
    /\ tasks[id].pc = "expiring" /\ lock = Tk(id)
    /\ LET removed == TrieTracker_remove(trie, tasks[id].hash)
       IN  /\ trie' = removed.trie
           /\ chan' = IF removed.ret = None THEN chan
                      ELSE drop_sender(chan, removed.ret[1].tx)
           /\ tasks' = [tasks EXCEPT ![id].pc =
                          IF removed.ret # None /\ removed.ret[1].clip = None
                          THEN "unpersist" ELSE "expired"]
    /\ lock' = unlock(lock)
    /\ UNCHANGED <<files, calls, last, hist, clean, threads>>
    /\ UNCHANGED <<resp, aux>>

\* expire_timer: persist::rm_clipboard_file(&hash), the mutex released.
ExpireUnpersist(id) ==
    /\ tasks[id].pc = "unpersist"
    /\ files' = rm_clipboard_file(files, tasks[id].hash).files
    /\ tasks' = [tasks EXCEPT ![id].pc = "expired"]
    /\ UNCHANGED <<trie, chan, calls, last, hist, clean, threads, lock>>
    /\ UNCHANGED <<resp, aux>>

NextConc ==
    \/ \E hash \in ConcHashes, kind \in {MEM, PERSIST} :
         \E io_ok \in (IF kind = PERSIST THEN BOOLEAN ELSE {TRUE}) :
            Call("store", hash, kind, NextBlob, io_ok)
    \/ \E hash \in ConcHashes : Call("remove", hash, "", "", TRUE)
    \/ \E hash \in ConcHashes : Call("get", hash, "", "", TRUE)
    \/ \E i \in DOMAIN threads : ThreadLock(i)
    \/ \E i \in DOMAIN threads : StoreRemove(i)
    \/ \E i \in DOMAIN threads : StoreSend(i)
    \/ \E i \in DOMAIN threads : StoreInsert(i)
    \/ \E i \in DOMAIN threads : RemoveEntry(i)
    \/ \E i \in DOMAIN threads : GetClipboard(i)
    \/ \E id \in DOMAIN tasks : TimerFires(id)
    \/ \E id \in DOMAIN tasks : TaskLock(id)
    \/ \E id \in DOMAIN tasks : ExpireRemove(id)
    \/ \E id \in DOMAIN tasks : ExpireUnpersist(id)
    \/ \E id \in DOMAIN tasks : AbortTimer(id)

SpecConc == Init /\ [][NextConc]_vars

---------------------------------------------------------------------------
(* Properties.                                                             *)

\* The bytes of an Option<Clipboard>.
Bytes(clip) == IF clip = None THEN None ELSE Some(clip[1].data)

Max(S) == CHOOSE x \in S : \A y \in S : y <= x

\* The length of the longest common prefix of two hashes.
CommonPrefixLen(a, b) ==
    Max({i \in 0..Len(a) : i <= Len(b) /\ SubSeq(a, 1, i) = SubSeq(b, 1, i)})

\* The smallest k >= MIN_HASH_LEN such that no other hash of S shares the
\* first k characters of h.
MinUniquePrefixLen(h, S) ==
    CHOOSE k \in MIN_HASH_LEN..Len(h) :
        /\ \A g \in S \ {h} : SubSeq(g, 1, k) # SubSeq(h, 1, k)
        /\ \A j \in MIN_HASH_LEN..(k - 1) :
               \E g \in S \ {h} : SubSeq(g, 1, j) = SubSeq(h, 1, j)

StoredOk == last.op = "store" /\ last.ret.ok

\* C1: round trip.  From a successful store(H, B, K) until an expiry timer of
\* H fires or H is removed (or stored again), get_clipboard(H) returns a
\* clipboard whose bytes are B; get_clipboard of a hash that was never stored
\* returns None.
C1_RoundTrip ==
    /\ \A h \in Hashes : hist[h].intact => Bytes(get_clipboard(h)) = hist[h].blob
    /\ \A h \in Hashes : hist[h].blob = None => get_clipboard(h) = None

\* A persisted and an in-memory clipboard are both in their round-trip window
\* while a third hash was never stored.
C1_Witness ==
    \E h \in Hashes : \E g \in Hashes \ {h} :
        /\ hist[h].intact /\ hist[g].intact
        /\ trie[h][1].clip = None /\ trie[g][1].clip # None
        /\ \E n \in Hashes : hist[n].blob = None

\* C2: prefix resolution.  For every live hash H and every prefix P of H,
\* get(P) returns H's blob if H is the only live hash that starts with P, and
\* None if two or more live hashes start with P.
C2_PrefixResolution ==
    \A h \in Live : \A i \in 0..Len(h) :
        LET P == SubSeq(h, 1, i)
            sharing == {g \in Live : IsPrefix(P, g)}
        IN  /\ Cardinality(sharing) = 1 => Bytes(get_clipboard(P)) = hist[h].blob
            /\ Cardinality(sharing) >= 2 => get_clipboard(P) = None

\* Two live hashes with different blobs share their first MIN_HASH_LEN
\* characters: the short prefix is ambiguous, the longer ones are not.
C2_Witness ==
    \E h \in Live, g \in Live :
        /\ h # g
        /\ SubSeq(h, 1, MIN_HASH_LEN) = SubSeq(g, 1, MIN_HASH_LEN)
        /\ hist[h].blob # hist[g].blob
        /\ trie[h][1].clip = None

\* C3: right after store(H) returned min_len = k, the prefix H[..k] resolves
\* to exactly one entry, the one of H.
C3_MinLenUnambiguous ==
    StoredOk =>
        LET P == SubSeq(last.hash, 1, last.ret.min_len)
        IN  /\ {trie[c][1].hash : c \in all_children(trie, P)} = {last.hash}
            /\ Bytes(get_clipboard(P)) = Some(last.data)

\* A store that had to report more than MIN_HASH_LEN characters, because
\* another live hash shares the first MIN_HASH_LEN.
C3_Witness ==
    /\ StoredOk
    /\ last.ret.min_len > MIN_HASH_LEN
    /\ \E g \in Live \ {last.hash} :
           SubSeq(g, 1, MIN_HASH_LEN) = SubSeq(last.hash, 1, MIN_HASH_LEN)

\* C4: the value returned by store(H) is the minimum unique prefix length of H
\* with respect to the hashes currently stored, after any sequence of stores,
\* re-stores, removals and expiries.
C4_MinLenIsMinimum ==
    StoredOk => last.ret.min_len = MinUniquePrefixLen(last.hash, Live)

C6_MinLenInRange ==
    StoredOk =>
        /\ MIN_HASH_LEN <= last.ret.min_len
        /\ last.ret.min_len <= Len(last.hash)

\* H is stored over its own live entry, and the whole hash is reported.
C6_Witness ==
    /\ StoredOk
    /\ last.replaced # None
    /\ last.ret.min_len = Len(last.hash)

\* C7: once the expiry timer of the most recent store(H) has fired and run to
\* completion, get(H) returns None and no file named H exists.
C7_ExpiredLeavesNothing ==
    \A h \in Hashes :
        (hist[h].task # 0 /\ tasks[hist[h].task].pc = "expired") =>
            /\ get_clipboard(h) = None
            /\ h \notin DOMAIN files

\* C8: when store(H, B2, K2) replaces the live entry of store(H, B1, K1), then
\* get(H) returns B2, and if K1 was Persistent no file named H holding B1
\* remains.
C8_ReplacementDropsOldBlob ==
    (StoredOk /\ last.replaced # None /\ last.replaced[1].data # last.data) =>
        /\ Bytes(get_clipboard(last.hash)) = Some(last.data)
        /\ last.replaced[1].kind = PERSIST =>
               ~(last.hash \in DOMAIN files /\ files[last.hash] = last.replaced[1].data)

\* C9: when store(H) is called again while the timer of the previous entry has
\* not fired, the previous task is aborted (it never fires), H stays
\* retrievable until the new timer fires, and is absent once it has fired.
C9_TimerReset ==
    \A h \in Hashes :
        hist[h].rearmed =>
            /\ tasks[hist[h].prev].pc # "expired"
            /\ tasks[hist[h].task].pc = "select" =>
                   Bytes(get_clipboard(h)) = hist[h].blob
            /\ tasks[hist[h].task].pc = "expired" => get_clipboard(h) = None

\* C10: an expiry task superseded by a newer store(H) finds the entry absent
\* and does nothing: it removes no entry and deletes no file.
C10_SupersededTaskDoesNothing ==
    (last.op = "expire" /\ last.stale) => (last.rm_tx = 0 /\ ~last.rm_file)

\* The entry whose abort sender belongs to expiry task id is in the table.
EntryOf(id) ==
    /\ id \in DOMAIN tasks
    /\ tasks[id].hash \in Live
    /\ trie[tasks[id].hash][1].tx = id

LiveTasks(h) ==
    {id \in DOMAIN tasks : tasks[id].hash = h /\ tasks[id].pc = "select"}

\* C12 (I3): at most one expiry task of H is live, and the receiver it holds
\* is paired with the abort sender stored in H's current table entry.
C12_OneLiveTaskPerHash ==
    \A h \in Hashes :
        /\ Cardinality(LiveTasks(h)) <= 1
        /\ \A id \in LiveTasks(h) : h \in Live /\ trie[h][1].tx = id

\* C13 (I2): whenever the table holds a Persistent entry for H, a file named
\* H exists in the storage directory, under every interleaving of the calls
\* and the expiry tasks (no outside process touches the directory).
C13_PersistentEntryHasFile ==
    \A h \in Live : trie[h][1].clip = None => h \in DOMAIN files

\* A store whose abort send failed, and that met no file-system error.
AbortSendFailed(i) ==
    /\ threads[i].op = "store" /\ threads[i].pc = "done"
    /\ threads[i].sent = "failed" \/ threads[i].ret.err = "Bug"
    /\ threads[i].ret.err # "IoError"

\* C14: a failed abort send during store is tolerated: the store still
\* inserts its entry, spawns the expiry task and returns Ok(min_len), under
\* every interleaving of stores of the same hash and firing timers.
C14_FailedAbortTolerated ==
    \A i \in DOMAIN threads : AbortSendFailed(i) => threads[i].ret.ok

\* C17 (I5): a get(H) that runs while a store(H, B2) replaces a live entry
\* holding B1 returns B1 or B2, never absent.
C17_GetDuringReplacement ==
    \A i \in DOMAIN threads :
        (threads[i].op = "get" /\ threads[i].pc = "done" /\ threads[i].racing) =>
            Bytes(threads[i].got) \in {Some(b) : b \in Blobs}

\* C18: store never sends on a previous entry's abort sender while it holds
\* the table lock.
C18_NoSendUnderLock ==
    \A i \in DOMAIN threads : ~threads[i].sent_locked

\* The thread or task that holds the mutex stands at the step it runs under
\* the mutex; that step needs nothing from anyone else and releases it.
HolderRuns ==
    \/ \E i \in DOMAIN threads :
          lock = Th(i) /\ threads[i].pc \in {"removing", "inserting", "getting"}
    \/ \E id \in DOMAIN tasks :
          lock = Tk(id) /\ tasks[id].pc = "expiring"

\* Call i can take its next step, or waits for a mutex whose holder can.
ThreadProceeds(i) ==
    CASE threads[i].pc \in {"remove", "insert", "get"} -> lock = None \/ HolderRuns
      [] threads[i].pc \in {"removing", "inserting", "getting"} -> lock = Th(i)
      [] OTHER -> TRUE

\* Expiry task id, its timer fired, can take its next step, or waits for a
\* mutex whose holder can.
TaskProceeds(id) ==
    CASE tasks[id].pc = "sleep" -> lock = None \/ HolderRuns
      [] tasks[id].pc = "expiring" -> lock = Tk(id)
      [] OTHER -> TRUE

\* The number of steps call i has left at most.
StepsLeft(i) ==
    CASE threads[i].pc \in {"remove", "get"} /\ threads[i].op # "store" -> 2
      [] threads[i].pc \in {"removing", "getting"} /\ threads[i].op # "store" -> 1
      [] threads[i].pc = "remove" -> 5
      [] threads[i].pc = "removing" -> 4
      [] threads[i].pc = "send" -> 3
      [] threads[i].pc = "insert" -> 2
      [] threads[i].pc = "inserting" -> 1
      [] OTHER -> 0

\* The number of steps expiry task id has left at most.
TaskStepsLeft(id) ==
    CASE tasks[id].pc = "select" -> 4
      [] tasks[id].pc = "sleep" -> 3
      [] tasks[id].pc = "expiring" -> 2
      [] tasks[id].pc = "unpersist" -> 1
      [] OTHER -> 0

\* C19: no deadlock.  In every reachable state every call in flight and every
\* expiry task whose timer fired can take its next step, or waits for the
\* mutex while its holder can take the step that releases it; and every step
\* brings the call or task that takes it nearer to its end, so that each
\* acquires the mutex and completes after a bounded number of steps.
C19_NoDeadlock ==
    /\ [](/\ lock # None => HolderRuns
          /\ \A i \in DOMAIN threads : ThreadProceeds(i)
          /\ \A id \in DOMAIN tasks : TaskProceeds(id))
    /\ [][/\ \A i \in DOMAIN threads : StepsLeft(i)' <= StepsLeft(i)
          /\ \A id \in DOMAIN tasks : TaskStepsLeft(id)' <= TaskStepsLeft(id)
          /\ \/ Len(threads') > Len(threads)
             \/ Len(tasks') > Len(tasks)
             \/ \E i \in DOMAIN threads : StepsLeft(i)' < StepsLeft(i)
             \/ \E id \in DOMAIN tasks : TaskStepsLeft(id)' < TaskStepsLeft(id)]_vars

\* Two callers and an expiry task want the mutex at once: one caller holds
\* it, the other caller and the task wait.
C19_Witness ==
    /\ \E i \in DOMAIN threads : lock = Th(i)
    /\ \E j \in DOMAIN threads : threads[j].pc \in {"remove", "insert", "get"}
    /\ \E id \in DOMAIN tasks : tasks[id].pc = "sleep"

\* C15: when the file write of a Persistent store(H) fails, store returns the
\* file-system error, no entry for H is inserted, no expiry task is spawned,
\* and the table is left in its post-removal state: a previous entry of H
\* stays removed and every other entry is unchanged.
C15_FailedWriteLeavesPostRemoval ==
    [][(last'.op = "store" /\ last'.kind = PERSIST /\ ~last'.io_ok) =>
          LET h == last'.hash
          IN  /\ ~last'.ret.ok /\ last'.ret.err = "IoError"
              /\ h \notin Live'
              /\ tasks' = tasks
              /\ trie' = TrieTracker_remove(trie, h).trie
              /\ \A g \in Hashes \ {h} :
                     /\ g \in Live <=> g \in Live'
                     /\ g \in Live => trie'[g] = trie[g]]_vars

\* A Persistent store over a live entry of the same hash has failed in its
\* file write.
C15_Witness ==
    /\ last.op = "store" /\ last.kind = PERSIST /\ ~last.io_ok
    /\ last.replaced # None
    /\ last.hash \notin Live

\* C16, as the code has it: after the backing file of a Persistent entry H
\* was deleted from outside, get(H) returns None and leaves the entry in the
\* table; the stale entry goes only when an expiry timer of H fires, or H is
\* stored again or removed.
C16_DanglingEntryStaysUntilExpiry ==
    /\ []((last.op = "get" /\ last.dangling) =>
             (last.got = None /\ Dangling(last.hash)))
    /\ [][\A h \in Hashes :
             (Dangling(h) /\ ~Dangling(h)') =>
                 (last'.op \in {"expire", "store", "remove"} /\ last'.hash = h)]_vars

\* get(H) has just run on a Persistent entry whose file was deleted, and the
\* entry's expiry timer has not fired.
C16_Witness ==
    /\ last.op = "get" /\ last.dangling
    /\ tasks[trie[last.hash][1].tx].pc = "select"

\* C16: after the backing file of a Persistent entry H was deleted from
\* outside, get(H) returns None, and the stale entry is removed from the
\* table by that operation, without waiting for H's expiry timer.
C16_DanglingEntryRemoved ==
    (last.op = "get" /\ last.dangling) =>
        (last.got = None /\ last.hash \notin Live)

C21_ExpiryTaskFrame ==
    [][((last'.op = "abort") \/ (last'.op = "expire" /\ last'.hash \notin Live)) =>
          (trie' = trie /\ files' = files /\ chan' = chan)]_vars

\* The timer of a removed Persistent entry has fired: the table has no entry
\* for the hash, and the file is still there.
C21_Witness ==
    /\ last.op = "expire" /\ last.rm_tx = 0
    /\ last.hash \in DOMAIN files
    /\ \E id \in DOMAIN tasks : tasks[id].pc = "expired" /\ chan[id] = "closed"

\* C22: is_empty() is true iff the table holds no entry; in particular it is
\* true once every expiry task has run and no store followed, although the
\* interior trie nodes of the expired hashes remain.
C22_IsEmptyIffNoEntry ==
    /\ is_empty <=> (\A p \in DOMAIN trie : trie[p] = None)
    /\ is_empty <=> Live = {}
    /\ (\A id \in DOMAIN tasks : tasks[id].pc # "select") => is_empty

\* Two hashes were stored and both timers have fired: the table is empty and
\* the nodes of both hashes' first characters are still in the trie.
C22_Witness ==
    /\ Len(tasks) = 2
    /\ tasks[1].hash # tasks[2].hash
    /\ \A id \in DOMAIN tasks : tasks[id].pc = "expired"
    /\ is_empty
    /\ \A id \in DOMAIN tasks : SubSeq(tasks[id].hash, 1, MIN_HASH_LEN) \in DOMAIN trie

\* C23: get is read-only.  On a live entry (Mem, or Persist with its file
\* present) it returns the stored blob under the stored kind and leaves the
\* table, the timers and the files as they were, so that a get following it
\* returns the same clipboard.
C23_GetReadOnly ==
    [][(last'.op = "get" /\ last'.hash \in Live /\ ~Dangling(last'.hash)) =>
          LET h == last'.hash
          IN  /\ trie' = trie /\ files' = files /\ tasks' = tasks /\ chan' = chan
              /\ last'.got = Some(Clipboard(IF trie[h][1].clip = None
                                              THEN PERSIST ELSE MEM,
                                            hist[h].blob[1]))
              /\ get_clipboard_frag(trie', files', h) = last'.got]_vars

\* get has just returned the blob of a live Persistent entry, read from its
\* file.
C23_Witness ==
    /\ last.op = "get" /\ last.hash \in Live
    /\ trie[last.hash][1].clip = None
    /\ last.hash \in DOMAIN files
    /\ last.got = Some(Clipboard(PERSIST, files[last.hash]))

---------------------------------------------------------------------------
(* The persistence layer on a file system (SpecFs).  A path is the         *)
(* sequence of its components; an absolute path starts with the component  *)
(* "/".  disk.dirs holds the directories and disk.files the regular files  *)
(* with their contents, both by absolute location.  main runs assert_dir   *)
(* once, and the handlers then call write_, read_ and rm_clipboard_file    *)
(* with the names they are given.                                          *)

\* The process's working directory.
cwd == <<"srv">>

\* DIR, the hard-coded storage directory "./drop".
DIR == <<".", "drop">>

\* The file names the handlers pass: two hashes, "../h1", "sub/h1", "/tmp/h1".
Names ==
    { <<"h1">>, <<"h2">>, <<"..", "h1">>, <<"sub", "h1">>, <<"/", "tmp", "h1">> }

\* A name with a path separator in it.
HasSeparator(name) == Len(name) > 1

\* Path::is_absolute
is_absolute(path) == path # <<>> /\ path[1] = "/"

\* Path::join: an absolute argument replaces the base.
Path_join(base, path) == IF is_absolute(path) THEN path ELSE base \o path

\* The parent of a location; the root is its own parent.
parent_of(loc) == IF loc = <<>> THEN <<>> ELSE SubSeq(loc, 1, Len(loc) - 1)

\* The kernel's walk along the components of a path: every component is
\* looked up in a directory that exists.
RECURSIVE walk(_, _, _)
walk(dirs, loc, comps) ==
    IF comps = <<>> THEN Some(loc)
    ELSE IF loc \notin dirs THEN None
    ELSE LET c == Head(comps)
             to == IF c = "." THEN loc
                   ELSE IF c = ".." THEN parent_of(loc)
                   ELSE Append(loc, c)
         IN  walk(dirs, to, Tail(comps))

\* The location a path names, if the walk gets there.
resolve(dirs, path) ==
    IF is_absolute(path) THEN walk(dirs, <<>>, Tail(path))
    ELSE walk(dirs, cwd, path)

\* std::fs::write: create or truncate the file; space = FALSE is a full disk.
fs_write(d, path, content, space) ==
    LET to == resolve(d.dirs, path)
    IN  IF to = None \/ ~space THEN [disk |-> d, ok |-> FALSE]
        ELSE IF to[1] \in d.dirs THEN [disk |-> d, ok |-> FALSE]
        ELSE [disk |-> [d EXCEPT !.files = (to[1] :> content) @@ d.files],
              ok |-> TRUE]

\* std::fs::read
fs_read(d, path) ==
    LET to == resolve(d.dirs, path)
    IN  IF to = None THEN None
        ELSE IF to[1] \in DOMAIN d.files THEN Some(d.files[to[1]]) ELSE None

\* std::fs::remove_file
fs_remove_file(d, path) ==
    LET to == resolve(d.dirs, path)
    IN  IF to # None /\ to[1] \in DOMAIN d.files
        THEN [disk |-> [d EXCEPT !.files =
                            [f \in DOMAIN d.files \ {to[1]} |-> d.files[f]]],
              ok |-> TRUE]
        ELSE [disk |-> d, ok |-> FALSE]

\* std::fs::create_dir: fails when the location is taken or has no parent.
fs_create_dir(d, path) ==
    LET to == resolve(d.dirs, path)
    IN  IF to = None THEN [disk |-> d, ok |-> FALSE]
        ELSE IF to[1] \in d.dirs \/ to[1] \in DOMAIN d.files
        THEN [disk |-> d, ok |-> FALSE]
        ELSE [disk |-> [d EXCEPT !.dirs = @ \cup {to[1]}], ok |-> TRUE]

\* persist::dir_exists: "notfound", or whether the location is a directory.
dir_exists(d, dst) ==
    LET to == resolve(d.dirs, Path_join(cwd, dst))
    IN  IF to = None THEN "notfound"
        ELSE IF to[1] \in d.dirs THEN "dir"
        ELSE IF to[1] \in DOMAIN d.files THEN "file"
        ELSE "notfound"

\* The directory assert_dir makes sure of: the configured one, if any.
assert_dir_target(conf) ==
    IF conf # None /\ conf[1] # <<>> THEN conf[1] ELSE DIR

\* persist::assert_dir(conf_dir): create the directory unless it is there;
\* ok = FALSE is the panic of a failed create_dir.
assert_dir(d, conf) ==
    LET dir == assert_dir_target(conf)
    IN  IF dir_exists(d, dir) = "dir" THEN [disk |-> d, ok |-> TRUE]
        ELSE fs_create_dir(d, dir)

\* persist::write_clipboard_file(name, content): the path is DIR joined with
\* the name, whatever the configuration says.
Persist_write_clipboard_file(d, name, content, space) ==
    fs_write(d, Path_join(DIR, name), content, space)

\* persist::read_clipboard_file(id)
Persist_read_clipboard_file(d, id) ==
    fs_read(d, Path_join(DIR, id))

\* persist::rm_clipboard_file(id)
Persist_rm_clipboard_file(d, id) ==
    fs_remove_file(d, Path_join(DIR, id))

\* The directories there are before the server starts.
BaseDirs == { <<>>, <<"srv">>, <<"tmp">> }

InitFs ==
    /\ TrackerInit
    /\ resp = None
    /\ req = None
    /\ worker = None
    /\ inserted = {}
    /\ MoreInit
    /\ conf_dir \in {None, Some(<<>>), Some(DIR), Some(<<"data">>)}
    /\ \E made \in SUBSET { <<"srv", "drop">>, <<"srv", "data">> } :
          disk = [dirs |-> BaseDirs \cup made, files |-> <<>>]

\* main: store::persist::assert_dir(conf.dir), before the server is built.
AssertDir ==
    /\ req = None
    /\ LET r == assert_dir(disk, conf_dir)
       IN  /\ disk' = r.disk
           /\ req' = [op |-> IF r.ok THEN "assert_dir" ELSE "panic",
                      name |-> <<>>, content |-> "", space |-> TRUE]
           /\ resp' = [ok |-> r.ok, data |-> None, before |-> disk]
    /\ UNCHANGED <<tracker, conf_dir, worker, inserted, more>>

\* The server is up: main has run assert_dir without a panic.
Serving == req # None /\ req.op # "panic"

\* A handler calls write_clipboard_file(name, content).
WriteClipboardFile(name, content, space) ==
    /\ Serving
    /\ LET r == Persist_write_clipboard_file(disk, name, content, space)
       IN  /\ disk' = r.disk
           /\ resp' = [ok |-> r.ok, data |-> None, before |-> disk]
    /\ req' = [op |-> "write", name |-> name, content |-> content, space |-> space]
    /\ UNCHANGED <<tracker, conf_dir, worker, inserted, more>>

\* A handler calls read_clipboard_file(id).
ReadClipboardFile(id) ==
    /\ Serving
    /\ LET r == Persist_read_clipboard_file(disk, id)
       IN  resp' = [ok |-> r # None, data |-> r, before |-> disk]
    /\ req' = [op |-> "read", name |-> id, content |-> "", space |-> TRUE]
    /\ UNCHANGED <<tracker, disk, conf_dir, worker, inserted, more>>

\* An expiry task calls rm_clipboard_file(id).
RmClipboardFile(id) ==
    /\ Serving
    /\ LET r == Persist_rm_clipboard_file(disk, id)
       IN  /\ disk' = r.disk
           /\ resp' = [ok |-> r.ok, data |-> None, before |-> disk]
    /\ req' = [op |-> "rm", name |-> id, content |-> "", space |-> TRUE]
    /\ UNCHANGED <<tracker, conf_dir, worker, inserted, more>>

NextFs ==
    \/ AssertDir
    \/ \E name \in Names, content \in Blobs, space \in BOOLEAN :
          WriteClipboardFile(name, content, space)
    \/ \E id \in Names : ReadClipboardFile(id)
    \/ \E id \in Names : RmClipboardFile(id)

SpecFs == InitFs /\ [][NextFs]_vars

\* C24: the persistence layer rejects a file name with a path separator in
\* it: write, read and remove called with such a name return an error and
\* touch no file.
C24_SeparatorRejected ==
    (Serving /\ req.op \in {"write", "read", "rm"} /\ HasSeparator(req.name)) =>
        (~resp.ok /\ disk = resp.before)

\* C25: with the configuration's dir set to a directory D other than the
\* default, D exists once the server is up, and a write of a hash that meets
\* no I/O failure succeeds and leaves the content in D/<hash>.
C25_ConfiguredDirUsed ==
    (Serving /\ conf_dir # None /\ conf_dir[1] \notin {<<>>, DIR}) =>
        LET D == cwd \o conf_dir[1]
        IN  /\ D \in disk.dirs
            /\ (req.op = "write" /\ req.space /\ ~HasSeparator(req.name)) =>
                  /\ resp.ok
                  /\ (D \o req.name) \in DOMAIN disk.files
                  /\ disk.files[D \o req.name] = req.content

---------------------------------------------------------------------------
(* The error gate (SpecErr): what a client is told about a StoreError.     *)
(* An error is its variant and the message it carries; req holds two       *)
(* errors and resp the text extract_error_msg makes of each.               *)

\* The messages the errors carry (a path, an OS error text ...).
Messages == {"", "No such file or directory: drop/1a2b", "Permission denied"}

\* StoreError; Empty carries nothing.
StoreError ==
    [kind : {"NotImplemented", "Bug", "IoError", "InvalidUtf8"}, msg : Messages]
        \cup {[kind |-> "Empty", msg |-> ""]}

\* StoreError::Bug("private error")
PrivateError == [kind |-> "Bug", msg |-> "private error"]

\* Display for StoreError: the #[error("...")] text of the variant.
to_string(err) ==
    CASE err.kind = "NotImplemented" -> "not implemented"
      [] err.kind = "Bug" -> "actix-drop bug"
      [] err.kind = "Empty" -> "empty clipboard sent"
      [] err.kind = "IoError" -> "io error"
      [] err.kind = "InvalidUtf8" -> "bad utf-8"

\* A gate that lets every error through.
public_error_all(err) == Some(err)

\* public_error: an IoError is not for clients.
public_error(err) == IF err.kind = "IoError" THEN None ELSE Some(err)

\* extract_error_msg
extract_error_msg(err) ==
    LET public == public_error(err)
    IN  to_string(IF public = None THEN PrivateError ELSE public[1])

InitErr ==
    /\ TrackerInit
    /\ resp = None
    /\ disk = None
    /\ conf_dir = None
    /\ worker = None
    /\ inserted = {}
    /\ MoreInit
    /\ req \in [a : StoreError, b : StoreError]

\* DropResponseHttp::format_err on each of the two errors.
ExtractErrorMsg ==
    /\ resp = None
    /\ resp' = [a |-> extract_error_msg(req.a), b |-> extract_error_msg(req.b)]
    /\ UNCHANGED <<tracker, aux>>

NextErr == ExtractErrorMsg

SpecErr == InitErr /\ [][NextErr]_vars

\* The errors whose detail is internal.
Internal(err) == err.kind \in {"IoError", "Bug"}

\* C26: for any two I/O or Bug errors, whatever their messages, the text
\* extract_error_msg gives the client is the same generic one; Empty and
\* InvalidUtf8 keep public messages of their own.
C26_ErrorGate ==
    resp # None =>
        /\ (Internal(req.a) /\ Internal(req.b)) =>
              (resp.a = resp.b /\ resp.a = "actix-drop bug")
        /\ req.a.kind = "Empty" => resp.a = "empty clipboard sent"
        /\ req.a.kind = "InvalidUtf8" => resp.a = "bad utf-8"
        /\ (req.a.kind \in {"Empty", "InvalidUtf8"} /\ req.b.kind # req.a.kind) =>
              resp.a # resp.b

\* Two I/O errors with different messages have been turned into the same text.
C26_Witness ==
    /\ resp # None
    /\ req.a.kind = "IoError" /\ req.b.kind = "IoError"
    /\ req.a.msg # req.b.msg
    /\ resp.a = resp.b

---------------------------------------------------------------------------
(* The HTTP handlers over one worker's tracker (SpecHttp): post_drop and   *)
(* get_drop, with the expiry tasks of the entries they store.              *)

\* The store field of a request; a value other than "persist" means memory.
StoreFields == {MEM, PERSIST}

\* The data field of a request.
Payloads == Blobs \cup {""}

\* The first four hex digits of the SHA-256 digest of the clipboard.
Sha256_truncate4(data) ==
    CASE data = "foo" -> <<2, 12, 2, 6>>
      [] data = "eiei" -> <<4, 7, 12, 13>>

\* The keys post_drop can make.
HttpHashes == {Sha256_truncate4(data) : data \in Blobs}

\* Clipboard::new_with_data: the kind of the clipboard of a request.
new_with_data(store) == IF store = PERSIST THEN PERSIST ELSE MEM

\* Clipboard::is_implemented
is_implemented(kind) == kind = PERSIST

InitHttp ==
    /\ trie = TrieNew
    /\ files = [n \in {} |-> ""]
    /\ tasks = <<>>
    /\ chan = [c \in {} |-> ""]
    /\ calls = 0
    /\ last = NoOp
    /\ hist = [h \in HttpHashes |-> NoHist]
    /\ clean = TRUE
    /\ threads = <<>>
    /\ lock = None
    /\ resp = None
    /\ AuxInit

\* post_drop: refuse what is not implemented or empty, else store under the
\* truncated digest and answer by the outcome.
PostDrop(store, data, io_ok) ==
    LET kind == new_with_data(store)
        answer(status, hash, stored) ==
            [op |-> "post", store |-> store, data |-> data, io_ok |-> io_ok,
             status |-> status, hash |-> hash, stored |-> stored, body |-> None]
    IN  IF ~is_implemented(kind)
        THEN /\ resp' = answer(400, <<>>, FALSE)
             /\ UNCHANGED <<tracker, aux>>
        ELSE IF data = ""
        THEN /\ resp' = answer(400, <<>>, FALSE)
             /\ UNCHANGED <<tracker, aux>>
        ELSE LET hash == Sha256_truncate4(data)
             IN  /\ StoreNewClipboard(hash, kind, data, io_ok)
                 /\ resp' = answer(IF last'.ret.ok THEN 200 ELSE 500, hash, TRUE)

\* get_drop
GetDrop(hash) ==
    LET got == get_clipboard(hash)
    IN  /\ resp' = [op |-> "get", store |-> "", data |-> "", io_ok |-> TRUE,
                    status |-> IF got # None THEN 200 ELSE 404,
                    hash |-> hash, stored |-> FALSE, body |-> got]
        /\ UNCHANGED <<tracker, aux>>

NextHttp ==
    \/ \E store \in StoreFields, data \in Payloads, io_ok \in BOOLEAN :
          PostDrop(store, data, io_ok)
    \/ \E hash \in HttpHashes : GetDrop(hash)
    \/ \E id \in DOMAIN tasks : ExpireTimer(id)
    \/ \E id \in DOMAIN tasks : AbortTimer(id)

SpecHttp == InitHttp /\ [][NextHttp]_vars

\* C27: POST /{prefix}/drop answers 200 to a non-empty blob of either kind
\* whose store meets no failure, and the clipboard is then retrievable under
\* the returned hash; it answers 400 to an empty blob without calling the
\* store; it answers 500 when the store fails.
C27_PostDropStatus ==
    [][(resp'.op = "post" /\ (resp' # resp \/ calls' # calls)) =>
          /\ (resp'.data # "" /\ resp'.io_ok) =>
                /\ resp'.status = 200
                /\ get_clipboard_frag(trie', files', resp'.hash) =
                      Some(Clipboard(new_with_data(resp'.store), resp'.data))
          /\ resp'.data = "" => (resp'.status = 400 /\ ~resp'.stored)
          /\ (resp'.data # "" /\ ~resp'.io_ok) => resp'.status = 500]_vars

---------------------------------------------------------------------------
(* The trie by itself (SpecTrie): Trie::insert and TrieNode::search, with  *)
(* no removal.  inserted remembers the paths given to insert.              *)

\* The longest path inserted, and the longest path searched for.
MaxInsertLen == 2
MaxSearchLen == 3

\* The keys of the paths.
Keys == {1, 2}

\* The paths of at most n keys.
PathsUpTo(n) == UNION {[1..k -> Keys] : k \in 0..n}

\* The values stored at the paths.
TrieValues == {"a", "b"}

\* SearchMode
SearchMode == {"Exact", "Prefix"}

\* A search that wants a value at the node in either mode.
search_valued(t, mode, path) ==
    LET child == search_child(t, <<>>, path)
    IN  IF child = None THEN FALSE ELSE t[child[1]] # None

\* TrieNode::search, on the root
search(t, mode, path) ==
    LET child == search_child(t, <<>>, path)
    IN  IF child = None THEN FALSE
        ELSE IF mode = "Prefix" THEN TRUE
        ELSE t[child[1]] # None

\* Trie::insert(path, value); it returns nothing.
TrieInsert(path, value) ==
    /\ trie' = Trie_insert(trie, path, value)
    /\ inserted' = inserted \cup {path}
    /\ resp' = None
    /\ UNCHANGED <<files, tasks, chan, calls, last, hist, clean, threads, lock>>
    /\ UNCHANGED <<req, disk, conf_dir, worker, more>>

\* trie.search(mode, path)
TrieSearch(mode, path) ==
    /\ resp' = [mode |-> mode, path |-> path, found |-> search(trie, mode, path)]
    /\ UNCHANGED <<tracker, aux>>

NextTrie ==
    \/ \E path \in PathsUpTo(MaxInsertLen), value \in TrieValues :
          TrieInsert(path, value)
    \/ \E mode \in SearchMode, path \in PathsUpTo(MaxSearchLen) :
          TrieSearch(mode, path)

SpecTrie == Init /\ [][NextTrie]_vars

\* C30, as the code has it: after any sequence of inserts and no removal,
\* search(Prefix, p) is true iff p is empty or p is a prefix of an inserted
\* path, and search(Exact, p) is true iff p itself was inserted.
C30_SearchAfterInserts ==
    resp # None =>
        /\ resp.mode = "Prefix" =>
              (resp.found <=>
                  (resp.path = <<>> \/ \E q \in inserted : IsPrefix(resp.path, q)))
        /\ resp.mode = "Exact" => (resp.found <=> resp.path \in inserted)

\* A proper prefix of an inserted path, not inserted itself, was found by a
\* Prefix search.
C30_Witness ==
    /\ resp # None
    /\ resp.mode = "Prefix" /\ resp.found
    /\ resp.path # <<>> /\ resp.path \notin inserted
    /\ Cardinality(inserted) > 1

\* C30: after any sequence of inserts and no removal, search(Prefix, p) is
\* true iff p is a prefix of an inserted path, and search(Exact, p) is true
\* iff p itself was inserted.
C30_PrefixOfInserted ==
    resp # None =>
        /\ resp.mode = "Prefix" =>
              (resp.found <=> \E q \in inserted : IsPrefix(resp.path, q))
        /\ resp.mode = "Exact" => (resp.found <=> resp.path \in inserted)

---------------------------------------------------------------------------
(* Deserialization of Data (SpecData): string_or_bytes takes a JSON string *)
(* or a JSON array of integers.  A string is the sequence of its code      *)
(* points, and its bytes are their UTF-8 encoding.  req holds a byte       *)
(* sequence, and resp what each of its two JSON forms deserializes to.     *)

\* The longest blob.
MaxBytes == 3

\* The bytes of the blobs: 'A', the bytes of U+00E9 and of U+20AC, and 0xFF.
ByteSamples == {65, 195, 169, 226, 130, 172, 255}

\* The blobs.
ByteSeqs == UNION {[1..n -> ByteSamples] : n \in 0..MaxBytes}

\* The number of bytes of the UTF-8 sequence a byte starts; 0 if it starts none.
utf8_width(b) ==
    IF b < 128 THEN 1
    ELSE IF b >= 194 /\ b <= 223 THEN 2
    ELSE IF b >= 224 /\ b <= 239 THEN 3
    ELSE IF b >= 240 /\ b <= 244 THEN 4
    ELSE 0

\* A continuation byte, 0x80..0xBF.
is_continuation(b) == b >= 128 /\ b <= 191

\* The code point of the w bytes of bytes from i on (all present).
utf8_code_point(bytes, i, w) ==
    CASE w = 1 -> bytes[i]
      [] w = 2 -> (bytes[i] - 192) * 64 + (bytes[i + 1] - 128)
      [] w = 3 -> (bytes[i] - 224) * 4096 + (bytes[i + 1] - 128) * 64
                    + (bytes[i + 2] - 128)
      [] w = 4 -> (bytes[i] - 240) * 262144 + (bytes[i + 1] - 128) * 4096
                    + (bytes[i + 2] - 128) * 64 + (bytes[i + 3] - 128)

\* The code points a width may encode: no overlong form, no surrogate.
utf8_in_range(cp, w) ==
    CASE w = 1 -> cp < 128
      [] w = 2 -> cp >= 128 /\ cp < 2048
      [] w = 3 -> cp >= 2048 /\ cp < 65536 /\ ~(cp >= 55296 /\ cp <= 57343)
      [] w = 4 -> cp >= 65536 /\ cp <= 1114111

\* String::from_utf8: the code points of bytes from i on, or None.
RECURSIVE from_utf8_at(_, _)
from_utf8_at(bytes, i) ==
    IF i > Len(bytes) THEN Some(<<>>)
    ELSE LET w == utf8_width(bytes[i])
         IN  IF w = 0 \/ i + w - 1 > Len(bytes) THEN None
             ELSE IF \E k \in 1..(w - 1) : ~is_continuation(bytes[i + k]) THEN None
             ELSE LET cp == utf8_code_point(bytes, i, w)
                      rest == from_utf8_at(bytes, i + w)
                  IN  IF ~utf8_in_range(cp, w) \/ rest = None THEN None
                      ELSE Some(<<cp>> \o rest[1])

from_utf8(bytes) == from_utf8_at(bytes, 1)

\* char::encode_utf8
encode_utf8(cp) ==
    IF cp < 128 THEN <<cp>>
    ELSE IF cp < 2048 THEN <<192 + (cp \div 64), 128 + (cp % 64)>>
    ELSE IF cp < 65536
    THEN <<224 + (cp \div 4096), 128 + ((cp \div 64) % 64), 128 + (cp % 64)>>
    ELSE <<240 + (cp \div 262144), 128 + ((cp \div 4096) % 64),
           128 + ((cp \div 64) % 64), 128 + (cp % 64)>>

\* Bytes that keep the low eight bits of each code point.
as_bytes_truncating(str) == [i \in 1..Len(str) |-> str[i] % 256]

\* str::as_bytes
RECURSIVE as_bytes(_)
as_bytes(str) ==
    IF str = <<>> THEN <<>> ELSE encode_utf8(Head(str)) \o as_bytes(Tail(str))

\* StringOrBytes::visit_str
visit_str(value) == as_bytes(value)

\* StringOrBytes::visit_seq: push the elements one by one.
RECURSIVE visit_seq(_)
visit_seq(elements) ==
    IF elements = <<>> THEN <<>>
    ELSE <<Head(elements)>> \o visit_seq(Tail(elements))

InitData ==
    /\ TrackerInit
    /\ resp = [string |-> None, array |-> None]
    /\ disk = None
    /\ conf_dir = None
    /\ worker = None
    /\ inserted = {}
    /\ MoreInit
    /\ req \in ByteSeqs

\* The blob arrives as a JSON string; only valid UTF-8 can.
DeserializeString ==
    /\ resp.string = None
    /\ from_utf8(req) # None
    /\ resp' = [resp EXCEPT !.string = Some(visit_str(from_utf8(req)[1]))]
    /\ UNCHANGED <<tracker, aux>>

\* The blob arrives as a JSON array of its bytes.
DeserializeArray ==
    /\ resp.array = None
    /\ resp' = [resp EXCEPT !.array = Some(visit_seq(req))]
    /\ UNCHANGED <<tracker, aux>>

NextData ==
    \/ DeserializeString
    \/ DeserializeArray

SpecData == InitData /\ [][NextData]_vars

\* C28: for every valid UTF-8 byte sequence, its JSON string form and its
\* JSON array-of-byte-integers form deserialize to the same Data blob.
C28_StringAndArrayAgree ==
    (resp.string # None /\ resp.array # None) =>
        (resp.string = resp.array /\ resp.string = Some(req))

\* A blob holding a three-byte character has been deserialized from both of
\* its forms.
C28_Witness ==
    /\ resp.string # None /\ resp.array # None
    /\ req = <<226, 130, 172>>

---------------------------------------------------------------------------
(* The HTTP workers (SpecWorkers).  HttpServer::new is given a factory,    *)
(* and every worker thread runs it to build its own App: the               *)
(* web::Data::new(Tracker::new()) inside the factory makes one Tracker per *)
(* worker.  A request is served by the worker that accepted its            *)
(* connection, on that worker's Tracker; the storage directory is the one  *)
(* thing the workers share.                                                *)

\* The worker threads.
Workers == {1, 2}

\* Tracker::new, in the factory.
WorkerNew == [trie |-> TrieNew, tasks |-> <<>>, chan |-> [c \in {} |-> ""]]

InitWorkers ==
    /\ TrackerInit
    /\ resp = None
    /\ req = None
    /\ disk = None
    /\ conf_dir = None
    /\ inserted = {}
    /\ MoreInit
    /\ worker = [w \in Workers |-> WorkerNew]

\* The answer of a handler of worker w.
Answer(op, w, hash, ok, got) ==
    [op |-> op, w |-> w, hash |-> hash, ok |-> ok, got |-> got]

\* post_drop on worker w: Tracker::store_new_clipboard on w's tracker.
WorkerStore(w, hash, kind, data, io_ok) ==
    /\ calls < MaxCalls
    /\ calls' = calls + 1
    /\ LET me == worker[w]
           removed == Tracker_remove(me.trie, hash)
           stopped == IF removed.ret # None
                      THEN send(me.chan, me.tasks, removed.ret[1].tx)
                      ELSE [chan |-> me.chan, ok |-> TRUE]
           tx == Len(me.tasks) + 1
           ins == insert_clipboard(removed.trie, files, stopped.chan, me.tasks,
                                   hash, Clipboard(kind, data), tx, io_ok)
       IN  /\ worker' = [worker EXCEPT ![w] =
                           [trie |-> ins.trie, chan |-> ins.chan,
                            tasks |-> IF ins.ret.ok
                                      THEN Append(me.tasks,
                                                  [hash |-> hash, pc |-> "select"])
                                      ELSE me.tasks]]
           /\ files' = ins.files
           /\ resp' = Answer("store", w, hash, ins.ret.ok, None)
    /\ UNCHANGED <<trie, tasks, chan, last, hist, clean, threads, lock>>
    /\ UNCHANGED <<req, disk, conf_dir, inserted, more>>

\* get_drop on worker w: Tracker::get_clipboard on w's tracker.
WorkerGet(w, hash) ==
    /\ LET got == get_clipboard_frag(worker[w].trie, files, hash)
       IN  resp' = Answer("get", w, hash, got # None, got)
    /\ UNCHANGED <<tracker, aux>>

\* The expiry task id of worker w: its sleep ends.
WorkerExpire(w, id) ==
    /\ worker[w].tasks[id].pc = "select"
    /\ LET me == worker[w]
           hash == me.tasks[id].hash
           removed == TrieTracker_remove(me.trie, hash)
           unpersist == IF removed.ret # None /\ removed.ret[1].clip = None
                        THEN rm_clipboard_file(files, hash)
                        ELSE [files |-> files, ok |-> FALSE]
       IN  /\ worker' = [worker EXCEPT ![w] =
                           [trie |-> removed.trie,
                            chan |-> IF removed.ret = None THEN me.chan
                                     ELSE drop_sender(me.chan, removed.ret[1].tx),
                            tasks |-> [me.tasks EXCEPT ![id].pc = "expired"]]]
           /\ files' = unpersist.files
           /\ resp' = Answer("expire", w, hash, removed.ret # None, None)
    /\ UNCHANGED <<trie, tasks, chan, calls, last, hist, clean, threads, lock>>
    /\ UNCHANGED <<req, disk, conf_dir, inserted, more>>

\* The expiry task id of worker w: its abort channel is ready.
WorkerAbort(w, id) ==
    /\ worker[w].tasks[id].pc = "select"
    /\ worker[w].chan[id] # "open"
    /\ worker' = [worker EXCEPT ![w].tasks[id].pc = "aborted"]
    /\ resp' = Answer("abort", w, worker[w].tasks[id].hash, TRUE, None)
    /\ UNCHANGED <<tracker, req, disk, conf_dir, inserted, more>>

NextWorkers ==
    \/ \E w \in Workers, hash \in ConcHashes, kind \in {MEM, PERSIST}, data \in Blobs :
         \E io_ok \in (IF kind = PERSIST THEN BOOLEAN ELSE {TRUE}) :
            WorkerStore(w, hash, kind, data, io_ok)
    \/ \E w \in Workers, hash \in ConcHashes : WorkerGet(w, hash)
    \/ \E w \in Workers : \E id \in DOMAIN worker[w].tasks : WorkerExpire(w, id)
    \/ \E w \in Workers : \E id \in DOMAIN worker[w].tasks : WorkerAbort(w, id)

SpecWorkers == InitWorkers /\ [][NextWorkers]_vars

\* What a get of hash on worker v's tracker returns.
StoredAt(v, hash) == get_clipboard_frag(worker[v].trie, files, hash)

\* C29: the workers share one table: a clipboard stored by any worker, and
\* still there, is what a later get by any other worker returns.
C29_StoreSeenByEveryWorker ==
    [][resp'.op = "get" =>
          \A v \in Workers :
              StoredAt(v, resp'.hash) # None =>
                  resp'.got = StoredAt(v, resp'.hash)]_vars

---------------------------------------------------------------------------
(* The trie with removal (SpecTrieRm): Trie::insert and TrieNode::remove   *)
(* called in any order.  resp holds the last call, the trie it was made    *)
(* on, and what it returned.                                               *)

\* The number of valued nodes of a trie.
valued(t) == Cardinality(all_children(t, <<>>))

\* trie.insert(path, value)
InsertCall(path, value) ==
    /\ trie' = Trie_insert(trie, path, value)
    /\ resp' = [op |-> "insert", path |-> path, value |-> value,
                node |-> None, panic |-> FALSE, before |-> trie]
    /\ UNCHANGED <<files, tasks, chan, calls, last, hist, clean, threads, lock>>
    /\ UNCHANGED aux

\* trie.remove(path); a panic unwinds the caller and leaves the trie.
RemoveCall(path) ==
    /\ LET r == TrieNode_remove(trie, path)
       IN  /\ trie' = r.trie
           /\ resp' = [op |-> "remove", path |-> path, value |-> "",
                       node |-> r.node, panic |-> r.panic, before |-> trie]
    /\ UNCHANGED <<files, tasks, chan, calls, last, hist, clean, threads, lock>>
    /\ UNCHANGED aux

NextTrieRm ==
    \/ \E path \in PathsUpTo(MaxInsertLen), value \in TrieValues :
          InsertCall(path, value)
    \/ \E path \in PathsUpTo(MaxInsertLen) : RemoveCall(path)

SpecTrieRm == Init /\ [][NextTrieRm]_vars

\* The last call was op, made with a non-empty path.
Called(op) == resp # None /\ resp.op = op /\ resp.path # <<>>

\* C31: remove(path) for a non-empty path that exists detaches the subtree
\* rooted at path and returns it with its own value: no node at or below path
\* is left, the count of values drops by the number of values of the subtree,
\* every value elsewhere is unchanged, and the nodes on the way to path stay.
C31_RemoveDetachesSubtree ==
    (Called("remove") /\ resp.path \in DOMAIN resp.before) =>
        LET b == resp.before
            path == resp.path
        IN  /\ resp.node = Some([value |-> b[path], children |-> subtree(b, path)])
            /\ search_child(trie, <<>>, path) = None
            /\ \A q \in DOMAIN trie : ~IsPrefix(path, q)
            /\ valued(b) - valued(trie) = Cardinality(all_children(b, path))
            /\ \A q \in DOMAIN b : ~IsPrefix(path, q) => (q \in DOMAIN trie /\ trie[q] = b[q])
            /\ \A i \in 0..(Len(path) - 1) : SubSeq(path, 1, i) \in DOMAIN trie

\* A node with a value of its own and a valued node below it has been
\* removed, and a value elsewhere is left.
C31_Witness ==
    /\ Called("remove") /\ resp.path \in DOMAIN resp.before
    /\ resp.before[resp.path] # None
    /\ Cardinality(all_children(resp.before, resp.path)) >= 2
    /\ valued(trie) >= 1

\* C32: removing a non-empty path that is not present returns None and leaves
\* the trie as it was; so after remove(p) a second remove(p) changes nothing.
C32_RemoveIdempotent ==
    /\ (Called("remove") /\ resp.path \notin DOMAIN resp.before) =>
          (resp.node = None /\ ~resp.panic /\ trie = resp.before)
    /\ Called("remove") =>
          TrieNode_remove(trie, resp.path) = [trie |-> trie, node |-> None, panic |-> FALSE]

\* A path below a valued node, not present itself, has been removed.
C32_Witness ==
    /\ Called("remove") /\ resp.path \notin DOMAIN resp.before
    /\ Len(resp.path) = 2
    /\ SubSeq(resp.path, 1, 1) \in all_children(resp.before, <<>>)
    /\ resp.node = None

\* C33: insert(path, v) on a path that exists overwrites only the value of
\* the node at path: the nodes and every other value are unchanged, and the
\* number of valued nodes stays if the node had a value and grows by one if
\* it had none.
C33_InsertOverwritesTerminal ==
    (resp # None /\ resp.op = "insert" /\ resp.path \in DOMAIN resp.before) =>
        LET b == resp.before
            path == resp.path
        IN  /\ DOMAIN trie = DOMAIN b
            /\ trie[path] = Some(resp.value)
            /\ \A q \in DOMAIN b \ {path} : trie[q] = b[q]
            /\ valued(trie) = valued(b) + (IF b[path] = None THEN 1 ELSE 0)

\* A valued node with a valued node below it has been given another value.
C33_Witness ==
    /\ resp # None /\ resp.op = "insert" /\ resp.path \in DOMAIN resp.before
    /\ resp.before[resp.path] # None
    /\ resp.before[resp.path] # Some(resp.value)
    /\ Cardinality(all_children(trie, resp.path)) >= 2

\* C38: TrieNode::remove is total: for every path, the empty one included,
\* it returns Some(node) or None without a panic.
C38_RemoveTotal ==
    (resp # None /\ resp.op = "remove") => ~resp.panic

---------------------------------------------------------------------------
(* The HashTrie wrapper (SpecHashTrie): a trie of hashes with, for each    *)
(* four-byte prefix, the key length HashTrie::insert computed last.        *)

\* The hashes given to HashTrie::insert: four to six bytes long.
WrapperHashes ==
    { <<1, 2, 3, 4>>, <<2, 3, 4, 5>>, <<1, 2, 3, 4, 5>>, <<1, 2, 3, 4, 5, 6>>,
      <<1, 2, 3, 4, 6, 6>>, <<7, 7, 7, 7, 0, 0>> }

\* The loop of HashTrie::insert: the first i, from 0 up, that is the length
\* of hash or whose prefix hash[..i] the trie does not hold.
RECURSIVE unique_idx(_, _, _)
unique_idx(t, hash, i) ==
    IF i = Len(hash) THEN i
    ELSE IF ~search(t, "Prefix", SubSeq(hash, 1, i)) THEN i
    ELSE unique_idx(t, hash, i + 1)

\* HashTrie::insert(hash): the hash goes into the trie first, then the loop
\* runs on the trie that holds it.
HashTrieInsert(hash) ==
    /\ LET t == Trie_insert(trie, hash, hash)
           idx == unique_idx(t, hash, 0)
       IN  /\ trie' = t
           /\ key_lengths' = (SubSeq(hash, 1, 4) :> idx) @@ key_lengths
           /\ resp' = [op |-> "insert", hash |-> hash, idx |-> idx,
                       others |-> inserted \ {hash}]
    /\ inserted' = inserted \cup {hash}
    /\ UNCHANGED <<files, tasks, chan, calls, last, hist, clean, threads, lock>>
    /\ UNCHANGED <<req, disk, conf_dir, worker, poisoned, haystack>>

NextHashTrie == \E hash \in WrapperHashes : HashTrieInsert(hash)

SpecHashTrie == Init /\ [][NextHashTrie]_vars

\* C34: HashTrie::insert(hash) returns the length of the shortest prefix of
\* hash, of at least 4, that no other hash inserted so far shares.
C34_InsertReturnsUniqueIndex ==
    resp # None => resp.idx = MinUniquePrefixLen(resp.hash, resp.others)

---------------------------------------------------------------------------
(* The tracker with hashes of several lengths (SpecMixed): the handlers of *)
(* Spec, called with hashes one of which is a prefix of another.           *)

\* The hashes stored: two of them extend the first.
MixedHashes == { <<1, 2, 3, 4>>, <<1, 2, 3, 4, 5>>, <<1, 2, 3, 4, 5, 6>>, <<7, 7, 7, 7>> }

InitMixed ==
    /\ trie = TrieNew
    /\ files = [n \in {} |-> ""]
    /\ tasks = <<>>
    /\ chan = [c \in {} |-> ""]
    /\ calls = 0
    /\ last = NoOp
    /\ hist = [h \in MixedHashes |-> NoHist]
    /\ clean = TRUE
    /\ threads = <<>>
    /\ lock = None
    /\ resp = None
    /\ AuxInit

NextMixed ==
    \/ \E hash \in MixedHashes, kind \in {MEM, PERSIST}, data \in Blobs :
          StoreNewClipboard(hash, kind, data, TRUE) /\ UNCHANGED resp
    \/ \E hash \in MixedHashes : Remove(hash)
    \/ \E id \in DOMAIN tasks : ExpireTimer(id)
    \/ \E id \in DOMAIN tasks : AbortTimer(id)

SpecMixed == InitMixed /\ [][NextMixed]_vars

\* C35: store(H) and remove(H) affect only the entry whose full hash is H:
\* every entry stored under another full hash stays in the table and stays
\* retrievable by its full hash, also when H is a proper prefix or an
\* extension of that hash.
C35_OtherEntriesKept ==
    [][last'.op \in {"store", "remove"} =>
          \A g \in MixedHashes \ {last'.hash} :
              (g \in DOMAIN trie /\ trie[g] # None) =>
                  /\ g \in DOMAIN trie'
                  /\ trie'[g] = trie[g]
                  /\ get_clipboard_frag(trie, files, g) # None =>
                        get_clipboard_frag(trie', files', g) =
                            get_clipboard_frag(trie, files, g)]_vars

---------------------------------------------------------------------------
(* The tracker called with a hash shorter than MIN_HASH_LEN (SpecShort).   *)
(* insert_clipboard slices &hash[..MIN_HASH_LEN] while it holds the guard  *)
(* of the trie's mutex: the slice panics, the unwinding drops the guard    *)
(* and the mutex is poisoned; lock().unwrap() and lock().expect() panic on *)
(* a poisoned mutex.                                                       *)

ShortHashes == { <<1, 2, 3>>, <<7, 7>> }

\* Tracker::store_new_clipboard with a hash shorter than MIN_HASH_LEN:
\* Tracker::remove detaches the subtree at the hash, then insert_clipboard
\* panics under the lock.
StoreNewClipboardShort(hash, kind, data) ==
    /\ ~poisoned
    /\ Len(hash) < MIN_HASH_LEN
    /\ calls < MaxCalls
    /\ calls' = calls + 1
    /\ LET removed == Tracker_remove(trie, hash)
       IN  /\ trie' = removed.trie
           /\ chan' = drop_below(IF removed.ret = None THEN chan
                                 ELSE send(chan, tasks, removed.ret[1].tx).chan,
                                 trie, hash)
    /\ poisoned' = TRUE
    /\ resp' = [op |-> "store", hash |-> hash, panic |-> TRUE]
    /\ last' = [NoOp EXCEPT !.op = "panic", !.hash = hash, !.kind = kind, !.data = data]
    /\ hist' = [h \in Hashes |->
                  IF IsPrefix(hash, h)
                  THEN [hist[h] EXCEPT !.intact = FALSE, !.rearmed = FALSE]
                  ELSE hist[h]]
    /\ clean' = FALSE
    /\ UNCHANGED <<files, tasks>>
    /\ UNCHANGED conc
    /\ UNCHANGED <<req, disk, conf_dir, worker, inserted, haystack, key_lengths>>

\* A call of store_new_clipboard, get_clipboard or remove on the poisoned
\* table: its lock().unwrap() or lock().expect() panics.
PoisonedCall(op, hash) ==
    /\ poisoned
    /\ calls < MaxCalls
    /\ calls' = calls + 1
    /\ resp' = [op |-> op, hash |-> hash, panic |-> TRUE]
    /\ last' = [NoOp EXCEPT !.op = "panic", !.hash = hash]
    /\ UNCHANGED <<trie, files, tasks, chan, hist, clean>>
    /\ UNCHANGED conc
    /\ UNCHANGED aux

\* expire_timer, the sleep branch, on the poisoned table: the task panics in
\* TrieTracker::remove and ends without removing anything.
PoisonedExpire(id) ==
    /\ poisoned
    /\ tasks[id].pc = "select"
    /\ tasks' = [tasks EXCEPT ![id].pc = "panicked"]
    /\ resp' = [op |-> "expire", hash |-> tasks[id].hash, panic |-> TRUE]
    /\ last' = [NoOp EXCEPT !.op = "panic", !.hash = tasks[id].hash, !.task = id]
    /\ UNCHANGED <<trie, files, chan, calls, hist, clean>>
    /\ UNCHANGED conc
    /\ UNCHANGED aux

NextShort ==
    \/ /\ ~poisoned
       /\ \E hash \in Hashes, kind \in {MEM, PERSIST}, data \in Blobs :
             StoreNewClipboard(hash, kind, data, TRUE) /\ UNCHANGED resp
    \/ \E hash \in ShortHashes, kind \in {MEM, PERSIST}, data \in Blobs :
          StoreNewClipboardShort(hash, kind, data)
    \/ ~poisoned /\ \E hash \in Hashes \cup ShortHashes : Remove(hash)
    \/ ~poisoned /\ \E hash \in Hashes \cup ShortHashes : GetCall(hash)
    \/ ~poisoned /\ \E id \in DOMAIN tasks : ExpireTimer(id)
    \/ \E id \in DOMAIN tasks : AbortTimer(id)
    \/ \E op \in {"store", "get", "remove"}, hash \in Hashes \cup ShortHashes :
          PoisonedCall(op, hash)
    \/ \E id \in DOMAIN tasks : PoisonedExpire(id)

SpecShort == Init /\ [][NextShort]_vars

\* C36: for every hash string, also one shorter than MIN_HASH_LEN,
\* store_new_clipboard returns without panicking under the table lock, so
\* the table stays usable: every later store, get, remove and expiry task on
\* the table completes.
C36_TableStaysUsable ==
    /\ ~poisoned
    /\ resp # None => ~resp.panic

---------------------------------------------------------------------------
(* The HashMap-backed Store (SpecStore).  Store is shared through an Arc   *)
(* and its haystack sits behind a Mutex; store_new_clipboard takes the     *)
(* lock once in remove_entry and once for the insert, and spawns the       *)
(* cleanup task in between.  On a runtime with several worker threads the  *)
(* spawned task runs while the caller is still in store_new_clipboard.     *)
(* haystack maps a key to its Entry, [storage, abort_tx]; storage is       *)
(* Some(clipboard) for Storage::Memory and None for Storage::Persistent.   *)

StoreKeys == {"keyfoo", "keybar"}

Entry(storage, abort_tx) == [storage |-> storage, abort_tx |-> abort_tx]

\* HashMap::remove on the haystack.
haystack_remove(h, hash) == [k \in DOMAIN h \ {hash} |-> h[k]]

\* A call of Store::store_new_clipboard arrives.
Store_call(hash, kind, data) ==
    /\ calls < MaxCalls
    /\ calls' = calls + 1
    /\ threads' = Append(threads, [op |-> "store", hash |-> hash, kind |-> kind,
                                   data |-> data, pc |-> "remove_entry", tx |-> 0])
    /\ last' = [NoOp EXCEPT !.op = "call", !.hash = hash, !.kind = kind, !.data = data]
    /\ UNCHANGED <<trie, files, tasks, chan, hist, clean, lock>>
    /\ UNCHANGED <<resp, aux>>

\* store_new_clipboard: store.remove_entry(hash), and the abort signal to
\* the cleanup task of the entry taken out.
Store_remove_entry(i) ==
    /\ threads[i].pc = "remove_entry"
    /\ LET hash == threads[i].hash
           old == IF hash \in DOMAIN haystack THEN haystack[hash].abort_tx ELSE 0
       IN  /\ haystack' = haystack_remove(haystack, hash)
           /\ chan' = IF old = 0 THEN chan ELSE send(chan, tasks, old).chan
           /\ last' = [NoOp EXCEPT !.op = "remove_entry", !.hash = hash, !.rm_tx = old]
    /\ threads' = [threads EXCEPT ![i].pc = "spawn"]
    /\ UNCHANGED <<trie, files, tasks, calls, hist, clean, lock>>
    /\ UNCHANGED <<resp, req, disk, conf_dir, worker, inserted, poisoned, key_lengths>>

\* store_new_clipboard: write the file of a Clipboard::Persist (an I/O error
\* returns), make the channel and spawn cleanup.
Store_spawn_cleanup(i, io_ok) ==
    /\ threads[i].pc = "spawn"
    /\ LET th == threads[i]
           written == IF th.kind = PERSIST
                      THEN write_clipboard_file(files, th.hash, th.data, io_ok)
                      ELSE [files |-> files, ok |-> TRUE]
       IN  /\ files' = written.files
           /\ IF written.ok
              THEN /\ tasks' = Append(tasks, [hash |-> th.hash, pc |-> "select"])
                   /\ chan' = [c \in DOMAIN chan \cup {next_tx} |->
                                 IF c = next_tx THEN "open" ELSE chan[c]]
                   /\ threads' = [threads EXCEPT ![i].pc = "insert", ![i].tx = next_tx]
              ELSE /\ threads' = [threads EXCEPT ![i].pc = "failed"]
                   /\ UNCHANGED <<tasks, chan>>
           /\ last' = [NoOp EXCEPT !.op = "spawn", !.hash = th.hash,
                                   !.task = IF written.ok THEN next_tx ELSE 0,
                                   !.io_ok = io_ok]
    /\ UNCHANGED <<trie, calls, hist, clean, lock>>
    /\ UNCHANGED <<resp, aux>>

\* store_new_clipboard: haystack.insert(hash, Entry); an entry that another
\* call put there meanwhile is replaced and dropped with its sender.
Store_insert(i) ==
    /\ threads[i].pc = "insert"
    /\ LET th == threads[i]
           storage == IF th.kind = MEM THEN Some(Clipboard(MEM, th.data)) ELSE None
       IN  /\ haystack' = [k \in DOMAIN haystack \cup {th.hash} |->
                             IF k = th.hash THEN Entry(storage, th.tx) ELSE haystack[k]]
           /\ chan' = IF th.hash \in DOMAIN haystack
                      THEN drop_sender(chan, haystack[th.hash].abort_tx)
                      ELSE chan
           /\ last' = [NoOp EXCEPT !.op = "insert", !.hash = th.hash, !.task = th.tx]
    /\ threads' = [threads EXCEPT ![i].pc = "done"]
    /\ UNCHANGED <<trie, files, tasks, calls, hist, clean, lock>>
    /\ UNCHANGED <<resp, req, disk, conf_dir, worker, inserted, poisoned, key_lengths>>

\* cleanup, the sleep branch of its select!: remove_entry(hash), and the
\* file of a persisted entry.
Cleanup(id) ==
    /\ tasks[id].pc = "select"
    /\ LET hash == tasks[id].hash
           found == hash \in DOMAIN haystack
           unpersist == IF found /\ haystack[hash].storage = None
                        THEN rm_clipboard_file(files, hash)
                        ELSE [files |-> files, ok |-> FALSE]
       IN  /\ haystack' = haystack_remove(haystack, hash)
           /\ files' = unpersist.files
           /\ chan' = IF found THEN drop_sender(chan, haystack[hash].abort_tx) ELSE chan
           /\ last' = [NoOp EXCEPT !.op = "cleanup", !.hash = hash, !.task = id,
                                   !.rm_tx = IF found THEN haystack[hash].abort_tx ELSE 0,
                                   !.rm_file = unpersist.ok]
    /\ tasks' = [tasks EXCEPT ![id].pc = "expired"]
    /\ UNCHANGED <<trie, calls, hist, clean, threads, lock>>
    /\ UNCHANGED <<resp, req, disk, conf_dir, worker, inserted, poisoned, key_lengths>>

NextStore ==
    \/ \E hash \in StoreKeys, kind \in {MEM, PERSIST}, data \in Blobs :
          Store_call(hash, kind, data)
    \/ \E i \in DOMAIN threads : Store_remove_entry(i)
    \/ \E i \in DOMAIN threads :
          \E io_ok \in (IF threads[i].kind = PERSIST THEN BOOLEAN ELSE {TRUE}) :
             Store_spawn_cleanup(i, io_ok)
    \/ \E i \in DOMAIN threads : Store_insert(i)
    \/ \E id \in DOMAIN tasks : Cleanup(id)
    \/ \E id \in DOMAIN tasks : AbortTimer(id)

SpecStore == Init /\ [][NextStore]_vars

\* The call that spawned cleanup task id has inserted its entry.
EntryInserted(id) ==
    \E i \in DOMAIN threads : threads[i].tx = id /\ threads[i].pc = "done"

\* C37: the cleanup task spawned by Store::store_new_clipboard never does its
\* removal before the entry it guards has been inserted into the haystack.
C37_CleanupAfterInsert ==
    last.op = "cleanup" => EntryInserted(last.task)

====
